---- MODULE Spec2Model ----
(***************************************************************************)
(* Workflow recording and replay of the job-application automation:        *)
(* WorkflowRecorder / WorkflowExecutor (workflow-recorder), the            *)
(* start_recording / stop_recording / execute_recorded_workflow handlers   *)
(* (ultra-fast-actions.ts), the batch handlers (batch-actions.ts), the     *)
(* optimized_job_application handler and WorkflowSaver statistics.         *)
(*                                                                         *)
(* JavaScript strings that the code inspects with includes()/substring()   *)
(* are sequences of tokens; '' is <<>>.  A success rate is an exact        *)
(* fraction <<numerator, denominator>> in lowest terms.                    *)
(***************************************************************************)
EXTENDS Integers, Sequences, FiniteSets, TLC

VARIABLES
    input,              \* arguments handed to a pure function under test
    output,             \* its result
    phase,              \* "input" before the call, "done" after it
    now,                \* Date.now()
    pageOk,             \* browserContext.getCurrentPage() resolves
    selectorMap,        \* page.getState().selectorMap: the live elements
    recording,          \* window.workflowRecording of the page
    listeners,          \* listener sets installed on the page by startRecording
    recorder,           \* a WorkflowRecorder instance kept by its owner
    recorded_workflows, \* chrome.storage.local 'recorded_workflows'
    result,             \* what the last operation returned to its caller
    resume,             \* ResumeManager.getAutoFillData(): a map or NoResume
    run,                \* locals of the executeWorkflow call in progress
    calls,              \* page-control calls issued by the last operation
    hits,               \* steps of the run that found their element and
                        \* whose action completed
    tally,              \* per workflow id: finished runs, and those complete
    observers,          \* MutationObservers in window.formObservers
    formObserverChanges, \* window.formObserverChanges of the page
    formObserver,       \* a DynamicFormObserver and its RateLimiter
    cache,              \* responseCache.cache: question hash -> entry
    jobhuntllm_workflows \* chrome.storage.local 'jobhuntllm_workflows'

fnVars == <<input, output, phase>>
pageVars == <<pageOk, selectorMap, recording, listeners>>
replayVars == <<resume, run, calls, hits, tally>>
applyVars == <<observers, formObserverChanges, formObserver, cache,
               jobhuntllm_workflows>>
vars == <<input, output, phase, now, pageOk, selectorMap, recording,
          listeners, recorder, recorded_workflows, result, resume, run,
          calls, hits, tally, observers, formObserverChanges, formObserver,
          cache, jobhuntllm_workflows>>

-----------------------------------------------------------------------------
(* Bounds of the model *)

MaxSnapshot == 2        \* live elements in a page snapshot (resolver runs)
MaxActionsOpt == 3      \* recorded actions handed to the optimizer
MaxTicks == 2           \* clock ticks in a recording behaviour
TickMs == 50            \* milliseconds per clock tick
MaxActions == 2         \* actions captured on the page in one session
MaxListeners == 2       \* listener sets installed on one page
MaxWorkflows == 1       \* workflows in 'recorded_workflows'
MaxSteps == 1           \* actions of a stored workflow (replay behaviours)
MaxRuns == 2            \* finished runs in a replay behaviour
MaxObservers == 1       \* observers installed on one page
MaxUses == 2            \* useCount of a cache entry
MaxUsage == 4           \* usageCount of a workflow (statistics behaviours)
MAX_CACHE_SIZE == 2     \* capacity of the response cache (1000 in the source)
MaxCacheTicks == 2      \* clock ticks in a cache behaviour
maxCalls == 2           \* permits per window of the RateLimiter (10 in the source)
timeWindow == 2         \* its window in units of 2000 ms (30 in the source)
MaxCanProceed == 5      \* canProceed calls in one limiter run
MaxBatches == 3         \* mutation batches the page observer writes

-----------------------------------------------------------------------------
(* String helpers: String.prototype.substring / includes on token lists *)

Min(a, b) == IF a < b THEN a ELSE b

substring(s, from, to) == SubSeq(s, from + 1, Min(to, Len(s)))

includes(s, t) ==
    \E i \in 1..(Len(s) - Len(t) + 1) : SubSeq(s, i, i + Len(t) - 1) = t

Repeat(tok, n) == [i \in 1..n |-> tok]

-----------------------------------------------------------------------------
(* Results of operations *)

NoId == -1              \* recordingId = ''

\* What a caller observes of an operation: the resolved value, or a rejection
\* (id: the recording or workflow id in it; executedSteps: the step count in it)
Returned(op, success, id, executedSteps) ==
    [op |-> op, success |-> success, thrown |-> FALSE, id |-> id,
     executedSteps |-> executedSteps]
Rejected(op) ==
    [op |-> op, success |-> FALSE, thrown |-> TRUE, id |-> NoId,
     executedSteps |-> 0]
NoResult == Returned("none", FALSE, NoId, 0)
-----------------------------------------------------------------------------
(* ElementResolver: WorkflowExecutor.findElement *)

null == 0               \* findElement's "no element": index 0 of the map

TextPrefix == 50        \* elementData.textContent.substring(0, 50)

\* One iteration of the loop body: the three tests made on ONE live element.
ElementMatches(element, elementData) ==
    \/ elementData.id # <<>> /\ element.id = elementData.id
    \/ elementData.name # <<>> /\ element.name = elementData.name
    \/ /\ elementData.textContent # <<>>
       /\ includes(element.textContent,
                   substring(elementData.textContent, 0, TextPrefix))

\* The code: a single pass; the first element that passes any test is returned.
\* map is state.selectorMap in entries() order; <<>> also stands for a state without selectorMap.
findElement(map, elementData) ==
    LET matching == {i \in 1..Len(map) :
                    ElementMatches(map[i], elementData)}
    IN  IF matching = {} THEN null
        ELSE CHOOSE i \in matching : \A j \in matching : i <= j

-----------------------------------------------------------------------------
(* Inputs of the resolver runs *)

Long50 == Repeat("x", 50)
Long51 == Repeat("x", 51)

ResolverIds == {<<>>, <<"email">>, <<"phone">>}
ResolverNames == {<<>>, <<"email">>}
LiveTexts == {<<>>, <<"easy", "apply">>, Long50}
FingerprintTexts == {<<>>, <<"apply">>, Long51}

LiveElements ==
    [id : ResolverIds, name : ResolverNames, textContent : LiveTexts]

Fingerprints ==
    [id : ResolverIds, name : ResolverNames, textContent : FingerprintTexts]

SeqsUpTo(S, n) == UNION {[1..k -> S] : k \in 0..n}

\* The variables a pure-function run leaves alone
SystemAtRest ==
    /\ now = 0
    /\ pageOk = TRUE
    /\ selectorMap = <<>>
    /\ recording = <<>>
    /\ listeners = 0
    /\ recorder = <<>>
    /\ recorded_workflows = <<>>
    /\ result = NoResult
    /\ resume = <<>>
    /\ run = <<>>
    /\ calls = <<>>
    /\ hits = 0
    /\ tally = <<>>
    /\ observers = 0
    /\ formObserverChanges = <<>>
    /\ formObserver = <<>>
    /\ cache = <<>>
    /\ jobhuntllm_workflows = <<>>

sysVars == <<now, pageOk, selectorMap, recording, listeners, recorder,
             recorded_workflows, result, resume, run, calls, hits,
             tally, observers, formObserverChanges, formObserver, cache,
             jobhuntllm_workflows>>

InitResolve ==
    /\ SystemAtRest
    /\ phase = "input"
    /\ output = null
    /\ input \in [selectorMap : SeqsUpTo(LiveElements, MaxSnapshot),
                  elementData : Fingerprints]

Resolve ==
    /\ phase = "input"
    /\ output' = findElement(input.selectorMap, input.elementData)
    /\ phase' = "done"
    /\ UNCHANGED <<input, sysVars>>

NextResolve == Resolve

SpecResolve == InitResolve /\ [][NextResolve]_vars

\* C2: rules are applied in priority order over the whole snapshot: an
\* id match anywhere wins over a name match, a name match over a text
\* match; with no match the result is none.
C2_PriorityOverSnapshot ==
    phase = "done" /\ "selectorMap" \in DOMAIN input =>
        LET m == input.selectorMap
            fp == input.elementData
            byId == {i \in 1..Len(m) : fp.id # <<>> /\ m[i].id = fp.id}
            byName == {i \in 1..Len(m) : fp.name # <<>> /\ m[i].name = fp.name}
            byText == {i \in 1..Len(m) :
                        /\ fp.textContent # <<>>
                        /\ includes(m[i].textContent,
                                    substring(fp.textContent, 0, TextPrefix))}
        IN  IF byId # {} THEN output \in byId
            ELSE IF byName # {} THEN output \in byName
            ELSE IF byText # {} THEN output \in byText
            ELSE output = null

-----------------------------------------------------------------------------
(* StepOptimizer: WorkflowRecorder.optimizeWorkflow *)

ActionTypes == {"input", "click", "select", "keypress", "navigation"}

DebounceMs == 100       \* action.timestamp - actions[i - 1].timestamp < 100

NoData == <<>>          \* a step or action without data

\* data?.field || '' on a payload record
Get(data, field) == IF field \in DOMAIN data THEN data[field] ELSE <<>>

\* The if / else-if chain of the loop body: the step built for one action.
\* An action of a type outside the chain builds no step (empty result).
StepsFor(action, stepIndex, startTime) ==
    LET step(tag, data) ==
            <<[stepIndex |-> stepIndex,
               action |-> tag,
               element |-> action.element,
               data |-> data,
               timing |-> action.timestamp - startTime]>>
    IN  IF action.type = "input" THEN step("fill_field", action.data)
        ELSE IF action.type = "click" THEN step("click_element", NoData)
        ELSE IF action.type = "select" THEN step("select_option", action.data)
        ELSE IF action.type = "keypress" THEN step("key_press", action.data)
        ELSE IF action.type = "navigation" THEN step("navigate", action.data)
        ELSE <<>>

\* Variant of the loop: debounce against the last action that was kept.
RECURSIVE optimizeLoopLastKept(_, _, _, _, _, _)
optimizeLoopLastKept(actions, startTime, i, last, stepIndex, optimized) ==
    IF i > Len(actions) THEN optimized
    ELSE IF /\ last > 0
            /\ actions[last].type = actions[i].type
            /\ actions[i].timestamp - actions[last].timestamp < DebounceMs
         THEN optimizeLoopLastKept(actions, startTime, i + 1, last,
                                   stepIndex, optimized)
         ELSE LET new == StepsFor(actions[i], stepIndex, startTime)
              IN  optimizeLoopLastKept(actions, startTime, i + 1, i,
                                       stepIndex + Len(new), optimized \o new)

optimizeWorkflowLastKept(actions, startTime) ==
    optimizeLoopLastKept(actions, startTime, 1, 0, 0, <<>>)

\* Variant of the loop: stepIndex taken from the raw action index i.
RECURSIVE optimizeLoopRawIndex(_, _, _, _)
optimizeLoopRawIndex(actions, startTime, i, optimized) ==
    IF i > Len(actions) THEN optimized
    ELSE IF /\ i > 1
            /\ actions[i - 1].type = actions[i].type
            /\ actions[i].timestamp - actions[i - 1].timestamp < DebounceMs
         THEN optimizeLoopRawIndex(actions, startTime, i + 1, optimized)
         ELSE optimizeLoopRawIndex(actions, startTime, i + 1,
                  optimized \o StepsFor(actions[i], i - 1, startTime))

optimizeWorkflowRawIndex(actions, startTime) ==
    optimizeLoopRawIndex(actions, startTime, 1, <<>>)

\* for (let i = 0; i < actions.length; i++) { ... } with its stepIndex counter
RECURSIVE optimizeLoop(_, _, _, _, _)
optimizeLoop(actions, startTime, i, stepIndex, optimized) ==
    IF i > Len(actions) THEN optimized
    ELSE IF /\ i > 1
            /\ actions[i - 1].type = actions[i].type
            /\ actions[i].timestamp - actions[i - 1].timestamp < DebounceMs
         THEN optimizeLoop(actions, startTime, i + 1, stepIndex, optimized)
         ELSE LET new == StepsFor(actions[i], stepIndex, startTime)
              IN  optimizeLoop(actions, startTime, i + 1,
                               stepIndex + Len(new), optimized \o new)

optimizeWorkflow(actions, startTime) ==
    optimizeLoop(actions, startTime, 1, 0, <<>>)

-----------------------------------------------------------------------------
(* Inputs of the optimizer runs *)

StartTimes == {0, 950}
Deltas == {0, 50, 100}

\* The element and payload that the page listeners attach to each event type
FieldEmail ==
    [tagName |-> "input", id |-> <<"email">>, name |-> <<"email">>,
     placeholder |-> <<>>, textContent |-> <<>>]
ButtonApply ==
    [tagName |-> "button", id |-> <<>>, name |-> <<>>,
     placeholder |-> <<>>, textContent |-> <<"easy", "apply">>]
SelectCountry ==
    [tagName |-> "select", id |-> <<"country">>, name |-> <<>>,
     placeholder |-> <<>>, textContent |-> <<>>]
Body ==
    [tagName |-> "body", id |-> <<>>, name |-> <<>>,
     placeholder |-> <<>>, textContent |-> <<>>]

SampleElement(type) ==
    IF type = "input" \/ type = "keypress" THEN FieldEmail
    ELSE IF type = "click" THEN ButtonApply
    ELSE IF type = "select" THEN SelectCountry
    ELSE Body

SampleData(type) ==
    IF type = "input" THEN [value |-> <<"typed">>]
    ELSE IF type = "select"
         THEN [selectedValue |-> <<"us">>, selectedText |-> <<"usa">>]
    ELSE IF type = "keypress" THEN [key |-> <<"Enter">>]
    ELSE IF type = "navigation" THEN [toUrl |-> <<"next">>]
    ELSE NoData

\* recording.actions.push({timestamp, type, element, data}) for each event
RECURSIVE Timeline(_, _)
Timeline(events, t0) ==
    IF events = <<>> THEN <<>>
    ELSE LET e == Head(events)
         IN  <<[timestamp |-> t0 + e.delta,
                type |-> e.type,
                element |-> SampleElement(e.type),
                data |-> SampleData(e.type)]>>
             \o Timeline(Tail(events), t0 + e.delta)

ScenarioEvents ==
    <<[type |-> "input", delta |-> 100], [type |-> "input", delta |-> 100],
      [type |-> "click", delta |-> 100], [type |-> "select", delta |-> 100],
      [type |-> "keypress", delta |-> 100]>>

InitOptimize ==
    /\ SystemAtRest
    /\ phase = "input"
    /\ output = <<>>
    /\ \E startTime \in StartTimes :
       \E events \in SeqsUpTo([type : ActionTypes, delta : Deltas],
                              MaxActionsOpt) \cup {ScenarioEvents} :
          input = [actions |-> Timeline(events, startTime),
                   startTime |-> startTime]

Optimize ==
    /\ phase = "input"
    /\ output' = optimizeWorkflow(input.actions, input.startTime)
    /\ phase' = "done"
    /\ UNCHANGED <<input, sysVars>>

NextOptimize == Optimize

SpecOptimize == InitOptimize /\ [][NextOptimize]_vars

\* The raw actions that the debounce rule of the specification keeps:
\* action i is dropped iff i > first and the raw action just before it has
\* the same type and lies less than 100 ms back.
RuleKept(actions) ==
    {i \in 1..Len(actions) :
        ~ (/\ i > 1
           /\ actions[i - 1].type = actions[i].type
           /\ actions[i].timestamp - actions[i - 1].timestamp < 100)}

KthOf(S, k) == CHOOSE i \in S : Cardinality({j \in S : j < i}) = k - 1

RuleTag(type) ==
    CASE type = "input" -> "fill_field"
      [] type = "click" -> "click_element"
      [] type = "select" -> "select_option"
      [] type = "keypress" -> "key_press"
      [] type = "navigation" -> "navigate"

OptimizerRan == phase = "done" /\ "startTime" \in DOMAIN input

\* C4: debounce.  The steps are exactly the actions that the rule keeps, one
\* step per kept action: same count, and the k-th step carries the element,
\* payload origin and timestamp of the k-th kept action.
C4_Debounce ==
    OptimizerRan =>
        LET acts == input.actions
            kept == RuleKept(acts)
        IN  /\ Len(output) = Cardinality(kept)
            /\ \A k \in 1..Len(output) :
                  /\ output[k].element = acts[KthOf(kept, k)].element
                  /\ output[k].timing + input.startTime
                        = acts[KthOf(kept, k)].timestamp

\* C4 witness: a run in which an action sits within 100 ms of a dropped
\* same-type action, and two inputs 50 ms apart gave one fill_field step.
C4_Witness ==
    /\ OptimizerRan
    /\ Len(input.actions) = 2
    /\ input.actions[1].type = "input" /\ input.actions[2].type = "input"
    /\ input.actions[1].timestamp = 1000 /\ input.actions[2].timestamp = 1050
    /\ Len(output) = 1 /\ output[1].action = "fill_field"

\* C5: mapping.  Steps keep the input order, carry the tag of their action's
\* type, are numbered 0..n-1 in emission order and are timed relative to the
\* session start.
C5_Mapping ==
    OptimizerRan =>
        LET acts == input.actions
            kept == RuleKept(acts)
        IN  \A k \in 1..Len(output) :
               /\ output[k].stepIndex = k - 1
               /\ k <= Cardinality(kept) =>
                    /\ output[k].action = RuleTag(acts[KthOf(kept, k)].type)
                    /\ output[k].timing
                         = acts[KthOf(kept, k)].timestamp - input.startTime

\* C5 witness: the five-action scenario gave five steps numbered 0..4 with
\* the tags in recording order.
C5_Witness ==
    /\ OptimizerRan
    /\ [i \in 1..Len(input.actions) |-> input.actions[i].type]
          = <<"input", "input", "click", "select", "keypress">>
    /\ [i \in 1..Len(output) |-> output[i].action]
          = <<"fill_field", "fill_field", "click_element", "select_option",
              "key_press">>
    /\ [i \in 1..Len(output) |-> output[i].stepIndex] = <<0, 1, 2, 3, 4>>

-----------------------------------------------------------------------------
(* Recorder: WorkflowRecorder and the page script it injects *)

NoRecording == <<>>     \* window.workflowRecording is undefined

FingerprintText == 100  \* element.textContent?.trim().substring(0, 100)

\* trackEvent's elementData for an event target
Fingerprint(element) ==
    [tagName |-> element.tagName,
     id |-> element.id,
     name |-> element.name,
     placeholder |-> element.placeholder,
     textContent |-> substring(element.textContent, 0, FingerprintText)]

\* private fields of a WorkflowRecorder after construction
NewRecorder == [isRecording |-> FALSE, startTime |-> 0, recordingId |-> NoId]

\* The payload each listener hands to trackEvent
EventData(type, element) ==
    IF type = "input" THEN [value |-> <<"typed">>]
    ELSE IF type = "select"
         THEN [selectedValue |-> <<"us">>, selectedText |-> <<"usa">>]
    ELSE IF type = "keypress" THEN [key |-> <<"Enter">>]
    ELSE IF type = "navigation" THEN [toUrl |-> <<"next">>]
    ELSE NoData

\* Which listener fires for which target
Fires(type, element) ==
    \/ type = "click" /\ element.tagName = "button"
    \/ type = "input" /\ element.tagName = "input"
    \/ type = "select" /\ element.tagName = "select"
    \/ type = "keypress" /\ element.tagName = "input"

\* startRecording on recorder r: the recorder afterwards, the page afterwards
\* and the returned value.  The fields are assigned before the page is
\* fetched, so a throw of getCurrentPage leaves them assigned.
startRecording(r) ==
    LET started == [isRecording |-> TRUE, startTime |-> now,
                    recordingId |-> now]
    IN  IF pageOk
        THEN [recorder |-> started,
              recording |-> [id |-> now, actions |-> <<>>,
                             isRecording |-> TRUE],
              listeners |-> listeners + 1,
              returned |-> [success |-> TRUE, recordingId |-> now]]
        ELSE [recorder |-> started,
              recording |-> recording,
              listeners |-> listeners,
              returned |-> [success |-> FALSE, recordingId |-> NoId]]

\* const savedWorkflow = {...} of stopRecording, for a recorder with the
\* given recordingId and startTime that stops at time stopTime
SavedWorkflow(recordingId, startTime, stopTime, recordedActions) ==
    LET optimizedWorkflow == optimizeWorkflow(recordedActions, startTime)
    IN  [id |-> recordingId,
         steps |-> optimizedWorkflow,
         recordedAt |-> startTime,
         duration |-> stopTime - startTime,
         actionCount |-> Len(recordedActions),
         optimizedActionCount |-> Len(optimizedWorkflow),
         successRate |-> <<1, 1>>,
         usageCount |-> 0]

\* Variant of stopRecording: a session without actions is saved as well.
stopRecordingSaveEmpty(r) ==
    LET recordedActions ==
            IF recording # NoRecording THEN recording.actions ELSE <<>>
        frozen ==
            IF recording # NoRecording
            THEN [recording EXCEPT !.isRecording = FALSE]
            ELSE recording
        stopped == [r EXCEPT !.isRecording = FALSE]
        fail(r2, rec2) ==
            [recorder |-> r2, recording |-> rec2,
             workflows |-> recorded_workflows,
             returned |-> [success |-> FALSE, workflow |-> <<>>]]
    IN  IF ~ r.isRecording THEN fail(r, recording)
        ELSE IF ~ pageOk THEN fail(r, recording)
        ELSE LET saved == SavedWorkflow(r.recordingId, r.startTime, now,
                                        recordedActions)
             IN  [recorder |-> stopped, recording |-> frozen,
                  workflows |-> Append(recorded_workflows, saved),
                  returned |-> [success |-> TRUE, workflow |-> saved]]

\* stopRecording on recorder r: recorder, page and storage afterwards and the
\* returned value (workflow = <<>> when none is returned).
stopRecording(r) ==
    LET recordedActions ==
            IF recording # NoRecording THEN recording.actions ELSE <<>>
        frozen ==
            IF recording # NoRecording
            THEN [recording EXCEPT !.isRecording = FALSE]
            ELSE recording
        stopped == [r EXCEPT !.isRecording = FALSE]
        fail(r2, rec2) ==
            [recorder |-> r2, recording |-> rec2,
             workflows |-> recorded_workflows,
             returned |-> [success |-> FALSE, workflow |-> <<>>]]
    IN  IF ~ r.isRecording THEN fail(r, recording)
        ELSE IF ~ pageOk THEN fail(r, recording)
        ELSE IF Len(recordedActions) = 0 THEN fail(stopped, frozen)
        ELSE LET saved == SavedWorkflow(r.recordingId, r.startTime, now,
                                        recordedActions)
             IN  [recorder |-> stopped, recording |-> frozen,
                  workflows |-> Append(recorded_workflows, saved),
                  returned |-> [success |-> TRUE, workflow |-> saved]]

-----------------------------------------------------------------------------
(* Recording behaviours *)

RecordingPage == <<FieldEmail, ButtonApply>>

InitRecord ==
    /\ input = <<>> /\ output = <<>> /\ phase = "system"
    /\ now = 0
    /\ pageOk = TRUE
    /\ selectorMap = RecordingPage
    /\ recording = NoRecording
    /\ listeners = 0
    /\ recorder = NewRecorder
    /\ observers = 0
    /\ formObserverChanges = <<>>
    /\ formObserver = <<>>
    /\ cache = <<>>
    /\ jobhuntllm_workflows = <<>>
    /\ recorded_workflows = <<>>
    /\ result = NoResult
    /\ resume = <<>>
    /\ run = <<>>
    /\ calls = <<>>
    /\ hits = 0
    /\ tally = <<>>

Tick ==
    /\ now + TickMs <= MaxTicks * TickMs
    /\ now' = now + TickMs
    /\ UNCHANGED <<fnVars, applyVars, replayVars, pageVars, recorder, recorded_workflows, result>>

\* the tab goes away or comes back
PageToggle ==
    /\ pageOk' = ~ pageOk
    /\ UNCHANGED <<fnVars, applyVars, replayVars, now, selectorMap, recording, listeners, recorder,
                   recorded_workflows, result>>

\* a full page load: the window object and its listeners are gone
PageReload ==
    /\ pageOk
    /\ recording # NoRecording
    /\ recording' = NoRecording
    /\ listeners' = 0
    /\ UNCHANGED <<fnVars, applyVars, replayVars, now, pageOk, selectorMap, recorder,
                   recorded_workflows, result>>

\* a DOM event on a live element, or a URL change seen by the poll: every
\* installed listener set calls trackEvent once
UserEvent(type, element) ==
    /\ pageOk
    /\ listeners > 0
    /\ recording # NoRecording
    /\ recording.isRecording
    /\ Len(recording.actions) + listeners <= MaxActions
    /\ recording' =
          [recording EXCEPT !.actions =
              @ \o [k \in 1..listeners |->
                       [timestamp |-> now,
                        type |-> type,
                        element |-> Fingerprint(element),
                        data |-> EventData(type, element)]]]
    /\ UNCHANGED <<fnVars, applyVars, replayVars, now, pageOk, selectorMap, listeners, recorder,
                   recorded_workflows, result>>

PageEvent ==
    \/ \E type \in {"click", "input"} :
       \E i \in 1..Len(selectorMap) :
          Fires(type, selectorMap[i]) /\ UserEvent(type, selectorMap[i])
    \/ UserEvent("navigation", Body)

\* recorder.startRecording() called by the owner of the instance
StartRecording ==
    /\ listeners < MaxListeners
    /\ LET out == startRecording(recorder)
       IN  /\ recorder' = out.recorder
           /\ recording' = out.recording
           /\ listeners' = out.listeners
           /\ result' = Returned("startRecording", out.returned.success,
                                  out.returned.recordingId, 0)
    /\ UNCHANGED <<fnVars, applyVars, replayVars, now, pageOk, selectorMap, recorded_workflows>>

\* recorder.stopRecording() called by the owner of the instance
StopRecording ==
    /\ LET out == stopRecording(recorder)
       IN  /\ Len(out.workflows) <= MaxWorkflows
           /\ recorder' = out.recorder
           /\ recording' = out.recording
           /\ recorded_workflows' = out.workflows
           /\ result' = Returned("stopRecording", out.returned.success,
                                  IF out.returned.workflow = <<>> THEN NoId
                                  ELSE out.returned.workflow.id, 0)
    /\ UNCHANGED <<fnVars, applyVars, replayVars, now, pageOk, selectorMap, listeners>>

\* start_recording handler: a new WorkflowRecorder per call.  With the page
\* gone the getCurrentPage calls of the handler and of its catch block throw
\* and the handler rejects.
StartRecordingAction ==
    /\ listeners < MaxListeners
    /\ LET out == startRecording(NewRecorder)
       IN  /\ recording' = out.recording
           /\ listeners' = out.listeners
           /\ result' = IF pageOk
                        THEN Returned("start_recording",
                                      out.returned.success,
                                      out.returned.recordingId, 0)
                        ELSE Rejected("start_recording")
    /\ UNCHANGED <<fnVars, applyVars, replayVars, now, pageOk, selectorMap, recorder,
                   recorded_workflows>>

\* stop_recording handler: a new WorkflowRecorder per call
StopRecordingAction ==
    /\ LET out == stopRecording(NewRecorder)
           ok == out.returned.success /\ out.returned.workflow # <<>>
       IN  /\ Len(out.workflows) <= MaxWorkflows
           /\ recording' = out.recording
           /\ recorded_workflows' = out.workflows
           /\ result' = IF pageOk
                        THEN Returned("stop_recording", ok,
                                      IF ok THEN out.returned.workflow.id
                                      ELSE NoId, 0)
                        ELSE Rejected("stop_recording")
    /\ UNCHANGED <<fnVars, applyVars, replayVars, now, pageOk, selectorMap, listeners, recorder>>

NextRecord ==
    \/ Tick
    \/ PageToggle
    \/ PageReload
    \/ PageEvent
    \/ StartRecording
    \/ StopRecording
    \/ StartRecordingAction
    \/ StopRecordingAction

SpecRecord == InitRecord /\ [][NextRecord]_vars

Capturing ==
    /\ recording # NoRecording
    /\ recording.isRecording
    /\ Len(recording.actions) > 0

\* C3: a stop_recording handler call made while a session started by
\* start_recording has captured at least one action returns success with a
\* workflow, and that workflow is then in 'recorded_workflows'.
C3_StopAfterStart ==
    [][(/\ result.op = "start_recording" /\ result.success
        /\ StopRecordingAction /\ pageOk /\ Capturing)
          => /\ result'.success = TRUE
             /\ result'.id \in {recorded_workflows'[i].id :
                                  i \in 1..Len(recorded_workflows')}]_vars


\* the page holds no captured action of the session
\* { success: false } without a workflow
ExplicitNoWorkflow(r) == ~ r.success /\ ~ r.thrown /\ r.id = NoId

NothingCaptured ==
    recording = NoRecording \/ Len(recording.actions) = 0

\* stopRecording answers success = false without a workflow and stores nothing
StopFailed ==
    /\ result'.op = "stopRecording"
    /\ ExplicitNoWorkflow(result')
    /\ recorded_workflows' = recorded_workflows

C26_SingleSession ==
    [][(StartRecording /\ recorder.isRecording)
          => /\ ~ result'.success
             /\ result'.id = NoId
             /\ recorder' = recorder
             /\ recording' = recording]_vars

\* C35: startRecording on an idle recorder whose page cannot be reached
\* returns success = false and leaves the recorder idle, as it was, so that
\* a stopRecording that follows takes the not-recording exit.
C35_FailedStartIdle ==
    [][(StartRecording /\ ~ recorder.isRecording /\ ~ pageOk)
          => /\ ~ result'.success
             /\ ~ recorder'.isRecording
             /\ recorder' = recorder]_vars

-----------------------------------------------------------------------------
(* Executor: WorkflowExecutor *)

\* Exact arithmetic on success rates
RECURSIVE GCD(_, _)
GCD(a, b) == IF b = 0 THEN a ELSE GCD(b, a % b)

Frac(n, d) == LET g == GCD(n, d) IN <<n \div g, d \div g>>

\* String.prototype.toLowerCase, token by token
Lower(tok) ==
    CASE tok = "Email" -> "email"
      [] tok = "Phone" -> "phone"
      [] tok = "First" -> "first"
      [] tok = "Are" -> "are"
      [] tok = "Do" -> "do"
      [] tok = "US" -> "us"
      [] tok = "Next" -> "next"
      [] tok = "Submit" -> "submit"
      [] OTHER -> tok

toLowerCase(s) == [i \in DOMAIN s |-> Lower(s[i])]

NoResume == <<>>        \* getAutoFillData() / getResumeData() gave null

\* Variant of the lookup: falls back to the first workflow of the collection.
FindWorkflowOrFirst(workflows, workflowId) ==
    LET found == {k \in 1..Len(workflows) : workflows[k].id = workflowId}
    IN  IF found = {} THEN (IF Len(workflows) > 0 THEN 1 ELSE 0)
        ELSE CHOOSE k \in found : \A j \in found : k <= j

\* workflows.find(w => w.id === workflowId): its index, 0 for undefined
FindWorkflow(workflows, workflowId) ==
    LET found == {k \in 1..Len(workflows) : workflows[k].id = workflowId}
    IN  IF found = {} THEN 0
        ELSE CHOOSE k \in found : \A j \in found : k <= j

\* [element.name, element.id, element.placeholder].join(' ').toLowerCase()
Identifiers(element) ==
    toLowerCase(element.name \o <<" ">> \o element.id \o <<" ">>
                \o element.placeholder)

isResumeField(element) ==
    \E field \in {<<"email">>, <<"phone">>, <<"first", "_", "name">>,
                  <<"last", "_", "name">>, <<"name">>} :
        includes(Identifiers(element), field)

\* null is <<>>
getResumeFieldValue(element, resumeData) ==
    LET identifiers == Identifiers(element)
    IN  IF includes(identifiers, <<"email">>) THEN Get(resumeData, "email")
        ELSE IF includes(identifiers, <<"phone">>)
             THEN Get(resumeData, "phone")
        ELSE IF \/ includes(identifiers, <<"first">>)
                \/ includes(identifiers, <<"f", "name">>)
             THEN Get(resumeData, "first_name")
        ELSE IF \/ includes(identifiers, <<"last">>)
                \/ includes(identifiers, <<"l", "name">>)
             THEN Get(resumeData, "last_name")
        ELSE <<>>

\* Where an await on the page rejects during one step
Faults == {"none", "getState", "call"}

\* One page-control call that a step issues; with fault = "call" it throws
PageCall(op, target, value, fault) ==
    [calls |-> <<[op |-> op, target |-> target, value |-> value]>>,
     threw |-> fault = "call",
     found |-> TRUE]

Skipped(found) == [calls |-> <<>>, threw |-> FALSE, found |-> found]
Threw == [calls |-> <<>>, threw |-> TRUE, found |-> FALSE]

fillField(map, step, resumeData, fault) ==
    LET element == findElement(map, step.element)
        recorded == Get(step.data, "value")
        fromResume == getResumeFieldValue(step.element, resumeData)
        value == IF resumeData # NoResume /\ isResumeField(step.element)
                    /\ fromResume # <<>>
                 THEN fromResume ELSE recorded
    IN  IF fault = "getState" THEN Threw
        ELSE IF element = null THEN Skipped(FALSE)
        ELSE PageCall("inputTextElementNode", element, value, fault)

clickElement(map, step, fault) ==
    LET element == findElement(map, step.element)
    IN  IF fault = "getState" THEN Threw
        ELSE IF element = null THEN Skipped(FALSE)
        ELSE PageCall("clickElementNode", element, <<>>, fault)

selectOption(map, step, fault) ==
    LET element == findElement(map, step.element)
        value == IF Get(step.data, "selectedValue") # <<>>
                 THEN Get(step.data, "selectedValue")
                 ELSE Get(step.data, "selectedText")
    IN  IF fault = "getState" THEN Threw
        ELSE IF element = null THEN Skipped(FALSE)
        ELSE IF value = <<>> THEN Skipped(TRUE)
        ELSE PageCall("selectDropdownOption", element, value, fault)

pressKey(step, fault) ==
    IF Get(step.data, "key") = <<>> THEN Skipped(TRUE)
    ELSE PageCall("sendKeys", null, Get(step.data, "key"),
                  IF fault = "call" THEN "call" ELSE "none")

navigate(step, fault) ==
    IF Get(step.data, "toUrl") = <<>> THEN Skipped(TRUE)
    ELSE PageCall("navigateTo", null, Get(step.data, "toUrl"),
                  IF fault = "call" THEN "call" ELSE "none")

\* switch (step.action): the calls issued, whether the step threw, and
\* whether the step's target was found
executeStep(map, step, resumeData, fault) ==
    CASE step.action = "fill_field" -> fillField(map, step, resumeData, fault)
      [] step.action = "click_element" -> clickElement(map, step, fault)
      [] step.action = "select_option" -> selectOption(map, step, fault)
      [] step.action = "key_press" -> pressKey(step, fault)
      [] step.action = "navigate" -> navigate(step, fault)
      [] OTHER -> Skipped(TRUE)

\* speed === 'fast' ? 100 : speed === 'normal' ? 300 : 800
BaseDelay(speed) ==
    IF speed = "fast" THEN 100 ELSE IF speed = "normal" THEN 300 ELSE 800

\* Variant of the statistics update: halves instead of averaging over runs.
updateWorkflowStatsHalving(workflows, workflowId, success) ==
    LET k == FindWorkflow(workflows, workflowId)
        w == workflows[k]
        rate == Frac(w.successRate[1] + (IF success THEN 1 ELSE 0)
                        * w.successRate[2], 2 * w.successRate[2])
    IN  IF k = 0 THEN workflows
        ELSE [workflows EXCEPT ![k] =
                [w EXCEPT !.usageCount = @ + 1, !.successRate = rate]]

\* WorkflowExecutor.updateWorkflowStats: the collection it writes back
updateWorkflowStats(workflows, workflowId, success) ==
    LET k == FindWorkflow(workflows, workflowId)
        w == workflows[k]
        usageCount == w.usageCount + 1
        rate == Frac(w.successRate[1] * (usageCount - 1)
                        + (IF success THEN 1 ELSE 0) * w.successRate[2],
                     w.successRate[2] * usageCount)
    IN  IF k = 0 THEN workflows
        ELSE [workflows EXCEPT ![k] =
                [w EXCEPT !.usageCount = usageCount, !.successRate = rate]]

-----------------------------------------------------------------------------
(* Replay behaviours *)

FieldFirst ==
    [tagName |-> "input", id |-> <<>>, name |-> <<"First", "_", "name">>,
     placeholder |-> <<>>, textContent |-> <<>>]

FullPage == <<FieldEmail, ButtonApply, SelectCountry>>
ReplayPages == {FullPage, <<FieldEmail, SelectCountry>>, <<>>}

SampleResume ==
    [email |-> <<"me@mail">>, phone |-> <<"555">>,
     first_name |-> <<"Ann">>, last_name |-> <<"Lee">>]

\* A workflow as stopRecording stores it for a session started at startTime
\* whose events came 100 ms apart
Recorded(startTime, types) ==
    SavedWorkflow(startTime, startTime, startTime + 100 * (Len(types) + 1),
                  Timeline([i \in 1..Len(types) |->
                               [type |-> types[i], delta |-> 100]],
                           startTime))

FourSteps == <<"input", "click", "select", "input">>

FirstWorkflows ==
    {Recorded(0, types) :
        types \in (SeqsUpTo(ActionTypes, MaxSteps) \ {<<>>}) \cup {FourSteps}}

SecondWorkflow == Recorded(50, <<"click">>)

StoredCollections ==
    {<<>>} \cup {<<w, SecondWorkflow>> : w \in FirstWorkflows}

RequestIds == {0, 50, 7}
Speeds == {"fast", "normal", "slow"}
Jitters == {0, 199}     \* Math.random() * 200

NoRun ==
    [pc |-> "idle", workflowId |-> NoId, steps |-> <<>>, i |-> 0,
     executedSteps |-> 0, resumeData |-> NoResume, baseDelay |-> 0,
     waited |-> 0, stage |-> "ready", trace |-> <<>>]

InitReplay ==
    /\ input = <<>> /\ output = <<>> /\ phase = "system"
    /\ now = 0
    /\ pageOk = TRUE
    /\ selectorMap = FullPage
    /\ recording = NoRecording
    /\ listeners = 0
    /\ recorder = NewRecorder
    /\ observers = 0
    /\ formObserverChanges = <<>>
    /\ formObserver = <<>>
    /\ cache = <<>>
    /\ jobhuntllm_workflows = <<>>
    /\ recorded_workflows \in StoredCollections
    /\ result = NoResult
    /\ resume \in {NoResume, SampleResume}
    /\ run = NoRun
    /\ calls = <<>>
    /\ hits = 0
    /\ tally = [id \in {recorded_workflows[k].id :
                          k \in 1..Len(recorded_workflows)} |->
                  [runs |-> 0, full |-> 0]]

recVars == <<recording, listeners, recorder>>

FinishedRuns ==
    LET ids == DOMAIN tally
        RECURSIVE Sum(_)
        Sum(S) == IF S = {} THEN 0
                  ELSE LET x == CHOOSE x \in S : TRUE
                       IN  tally[x].runs + Sum(S \ {x})
    IN  Sum(ids)

\* the page is re-rendered between two awaits
DomChange ==
    /\ \E page \in ReplayPages \ {selectorMap} : selectorMap' = page
    /\ UNCHANGED <<fnVars, applyVars, now, pageOk, recVars, recorded_workflows, result,
                   replayVars>>

\* the tab goes away or comes back between two operations (inside a run the
\* handle fetched at its start stays in use and rejections are the Faults)
PageToggleReplay ==
    /\ run.pc # "running"
    /\ pageOk' = ~ pageOk
    /\ UNCHANGED <<fnVars, applyVars, now, selectorMap, recVars, recorded_workflows,
                   result, replayVars>>

\* executeWorkflow up to the step loop: load, find, fetch the page and the
\* resume data
BeginExecute(workflowId, useResumeData, speed) ==
    /\ run.pc # "running"
    /\ FinishedRuns < MaxRuns
    /\ calls' = <<>>
    /\ hits' = 0
    /\ LET k == FindWorkflow(recorded_workflows, workflowId)
       IN  IF k = 0
           THEN /\ run' = [NoRun EXCEPT !.pc = "notfound",
                                        !.workflowId = workflowId]
                /\ result' = Returned("executeWorkflow", FALSE, workflowId, 0)
           ELSE IF ~ pageOk
           THEN /\ run' = [NoRun EXCEPT !.pc = "aborted",
                                        !.workflowId = workflowId]
                /\ result' = Returned("executeWorkflow", FALSE, workflowId, 0)
           ELSE /\ run' = [pc |-> "running",
                           workflowId |-> workflowId,
                           steps |-> recorded_workflows[k].steps,
                           i |-> 1,
                           executedSteps |-> 0,
                           resumeData |-> IF useResumeData THEN resume
                                          ELSE NoResume,
                           baseDelay |-> BaseDelay(speed),
                           waited |-> 0,
                           stage |-> "ready",
                           trace |-> <<>>]
                /\ result' = NoResult
    /\ UNCHANGED <<fnVars, applyVars, now, pageVars, recorder, recorded_workflows,
                   resume, tally>>

\* One iteration of for (const step of workflow.steps) is
\*   try { await executeStep; executedSteps++; await delay } catch { log }
\* run.stage is the position inside it: "ready" before the iteration,
\* "acting" while executeStep is awaited, "pacing" while delay is awaited.
\* run.trace logs the iteration's events with the step's position:
\* "start", "call" (a page-control call issued), "done" or "threw"
\* (executeStep settled), "paced" (the delay elapsed).

Event(kind, i) == <<kind, i>>

\* Variant of the settle step: a rejected executeStep ends the run.
stepSettledAbort(r, out) ==
    [r EXCEPT !.trace = @ \o [k \in 1..Len(out.calls) |-> Event("call", r.i)]
                          \o <<Event(IF out.threw THEN "threw" ELSE "done",
                                     r.i)>>,
              !.executedSteps = IF out.threw THEN @ ELSE @ + 1,
              !.stage = IF out.threw THEN "ready" ELSE "pacing",
              !.pc = IF out.threw THEN "aborted" ELSE @]

\* Variant of the settle step: the next iteration begins without the delay.
stepSettledNoDelay(r, out) ==
    [r EXCEPT !.trace = @ \o [k \in 1..Len(out.calls) |-> Event("call", r.i)]
                          \o <<Event(IF out.threw THEN "threw" ELSE "done",
                                     r.i)>>,
              !.executedSteps = IF out.threw THEN @ ELSE @ + 1,
              !.stage = "ready",
              !.i = @ + 1]

\* the awaited executeStep settles: on success executedSteps++ and the
\* delay is awaited next; on a rejection the catch logs it and the loop
\* goes on with the next step
stepSettled(r, out) ==
    [r EXCEPT !.trace = @ \o [k \in 1..Len(out.calls) |-> Event("call", r.i)]
                          \o <<Event(IF out.threw THEN "threw" ELSE "done",
                                     r.i)>>,
              !.executedSteps = IF out.threw THEN @ ELSE @ + 1,
              !.stage = IF out.threw THEN "ready" ELSE "pacing",
              !.i = IF out.threw THEN @ + 1 ELSE @]

\* the loop takes its next step and calls executeStep
StartStep ==
    /\ run.pc = "running" /\ run.stage = "ready"
    /\ run.i <= Len(run.steps)
    /\ run' = [run EXCEPT !.stage = "acting",
                          !.waited = 0,
                          !.trace = Append(@, Event("start", run.i))]
    /\ UNCHANGED <<fnVars, applyVars, now, pageVars, recorder,
                   recorded_workflows, result, resume, calls, hits, tally>>

\* executeStep runs against the live page and settles
ExecuteStep ==
    /\ run.pc = "running" /\ run.stage = "acting"
    /\ \E fault \in Faults :
          \E out \in {executeStep(selectorMap, run.steps[run.i],
                                  run.resumeData, fault)} :
              /\ calls' = calls \o out.calls
              /\ hits' = IF out.found /\ ~ out.threw THEN hits + 1 ELSE hits
              /\ run' = stepSettled(run, out)
    /\ UNCHANGED <<fnVars, applyVars, now, pageVars, recorder, recorded_workflows,
                   result, resume, tally>>

\* await this.delay(baseDelay + Math.random() * 200) elapses
DelayElapsed ==
    /\ run.pc = "running" /\ run.stage = "pacing"
    /\ \E jitter \in Jitters :
          run' = [run EXCEPT !.waited = run.baseDelay + jitter,
                             !.stage = "ready",
                             !.i = @ + 1,
                             !.trace = Append(@, Event("paced", run.i))]
    /\ UNCHANGED <<fnVars, applyVars, now, pageVars, recorder,
                   recorded_workflows, result, resume, calls, hits, tally>>

\* after the loop: updateWorkflowStats, then the returned value
FinishExecute ==
    /\ run.pc = "running" /\ run.stage = "ready"
    /\ run.i > Len(run.steps)
    /\ recorded_workflows' =
          updateWorkflowStats(recorded_workflows, run.workflowId,
                              run.executedSteps = Len(run.steps))
    /\ result' = Returned("executeWorkflow", run.executedSteps > 0,
                          run.workflowId, run.executedSteps)
    /\ run' = [NoRun EXCEPT !.pc = "done", !.workflowId = run.workflowId]
    /\ tally' = [tally EXCEPT ![run.workflowId] =
                    [runs |-> @.runs + 1,
                     full |-> @.full + (IF run.executedSteps = Len(run.steps)
                                        THEN 1 ELSE 0)]]
    /\ UNCHANGED <<fnVars, applyVars, now, pageVars, recorder, resume, calls, hits>>

Execute ==
    \E workflowId \in RequestIds, useResumeData \in BOOLEAN, speed \in Speeds :
        BeginExecute(workflowId, useResumeData, speed)

NextReplay ==
    \/ DomChange
    \/ PageToggleReplay
    \/ Execute
    \/ StartStep
    \/ ExecuteStep
    \/ DelayElapsed
    \/ FinishExecute

SpecReplay == InitReplay /\ [][NextReplay]_vars

-----------------------------------------------------------------------------
(* Properties of replay *)

TargetsElement(step) ==
    step.action \in {"fill_field", "click_element", "select_option"}

StepsOf(workflowId) ==
    recorded_workflows[FindWorkflow(recorded_workflows, workflowId)].steps

RunReturned == run.pc = "done" /\ result.op = "executeWorkflow"

\* C1: for a workflow whose steps all target elements, executedSteps is the
\* number of steps whose element was resolved and whose action did not
\* throw; an unresolved step is a miss.
C1_ExecutedCountsResolved ==
    (RunReturned /\ \A k \in DOMAIN StepsOf(run.workflowId) :
                        TargetsElement(StepsOf(run.workflowId)[k]))
        => result.executedSteps = hits

\* C6: usageCount of every recorded workflow is the number of its finished
\* runs n, and from n >= 1 on successRate is (runs that executed every
\* step) / n; before the first run it is the initial 1.0.
C6_UsageStats ==
    \A k \in 1..Len(recorded_workflows) :
        LET w == recorded_workflows[k]
        IN  w.id \in DOMAIN tally =>
               /\ w.usageCount = tally[w.id].runs
               /\ w.successRate =
                     IF tally[w.id].runs = 0 THEN <<1, 1>>
                     ELSE Frac(tally[w.id].full, tally[w.id].runs)

\* C6 witness: a workflow after two runs, one of which executed every step
C6_Witness ==
    \E k \in 1..Len(recorded_workflows) :
        /\ recorded_workflows[k].id \in DOMAIN tally
        /\ tally[recorded_workflows[k].id] = [runs |-> 2, full |-> 1]
        /\ recorded_workflows[k].usageCount = 2
        /\ recorded_workflows[k].successRate = <<1, 2>>

\* The outcome (TRUE for 1) that a statistics write recorded, read off the
\* stored workflow before and after it
RecordedOutcome(before, after) ==
    after.successRate =
        Frac(before.successRate[1] * (after.usageCount - 1)
                + before.successRate[2],
             before.successRate[2] * after.usageCount)

\* C8: the success flag a run returns equals the outcome the same run
\* records into the workflow's successRate.
C8_OnePolicy ==
    [][FinishExecute =>
          LET k == FindWorkflow(recorded_workflows, run.workflowId)
          IN  result'.success =
                 RecordedOutcome(recorded_workflows[k],
                                 recorded_workflows'[k])]_vars

StoredIds == {recorded_workflows[i].id : i \in 1..Len(recorded_workflows)}

\* C9: executeWorkflow with an id that is not stored returns success=false
\* with executedSteps=0, starts no run, issues no page-control call and
\* leaves the stored workflows and the page as they were.
C9_AbsentNoEffect ==
    [][\A workflowId \in RequestIds \ StoredIds :
          (/\ run.pc # "running"
           /\ run'.workflowId = workflowId
           /\ \E useResumeData \in BOOLEAN, speed \in Speeds :
                 BeginExecute(workflowId, useResumeData, speed))
          => /\ result'.op = "executeWorkflow"
             /\ result'.success = FALSE /\ result'.thrown = FALSE
             /\ result'.executedSteps = 0
             /\ run'.pc \notin {"running", "done"}
             /\ calls' = <<>>
             /\ UNCHANGED <<recorded_workflows, pageVars, tally>>]_vars

\* C9 witness: a request for an absent id was answered while workflows are
\* stored
C9_Witness ==
    /\ run.pc = "notfound"
    /\ run.workflowId \notin StoredIds
    /\ Len(recorded_workflows) > 0
    /\ result.op = "executeWorkflow" /\ result.success = FALSE
    /\ result.executedSteps = 0
    /\ calls = <<>>

\* The scheduling of one run: an awaited promise settles, a timer fires
\* a stored two-step workflow and a one-step one, on the full page
InitReplayFair ==
    /\ input = <<>> /\ output = <<>> /\ phase = "system"
    /\ now = 0
    /\ pageOk = TRUE
    /\ selectorMap = FullPage
    /\ recording = NoRecording
    /\ listeners = 0
    /\ recorder = NewRecorder
    /\ observers = 0
    /\ formObserverChanges = <<>>
    /\ formObserver = <<>>
    /\ cache = <<>>
    /\ jobhuntllm_workflows = <<>>
    /\ recorded_workflows =
          <<Recorded(0, <<"input", "click">>), SecondWorkflow>>
    /\ result = NoResult
    /\ resume = SampleResume
    /\ run = NoRun
    /\ calls = <<>>
    /\ hits = 0
    /\ tally = [id \in StoredIds |-> [runs |-> 0, full |-> 0]]

SpecReplayFair ==
    /\ InitReplayFair /\ [][NextReplay]_vars
    /\ WF_vars(StartStep) /\ WF_vars(ExecuteStep)
    /\ WF_vars(DelayElapsed) /\ WF_vars(FinishExecute)

StartsOf(trace, i) == {p \in DOMAIN trace : trace[p] = Event("start", i)}

\* C11: a run that entered the loop stays a run through every step, whatever
\* fails in it, and returns nothing before the loop is over; when it
\* returns, every step has been started exactly once, executedSteps lies
\* in 0..total, the result is a value (not a rejection) and the workflow's
\* statistics have been written exactly once; and every such run returns.
C11_ReplayCompletes ==
    /\ [][(StartStep \/ ExecuteStep \/ DelayElapsed)
            => /\ run'.pc = "running"
               /\ UNCHANGED <<result, recorded_workflows, tally>>]_vars
    /\ [][FinishExecute
            => LET k == FindWorkflow(recorded_workflows, run.workflowId)
               IN  /\ \A p \in DOMAIN run.trace :
                         run.trace[p][2] \in 1..Len(run.steps)
                   /\ \A i \in 1..Len(run.steps) :
                         Cardinality(StartsOf(run.trace, i)) = 1
                   /\ result'.op = "executeWorkflow"
                   /\ result'.thrown = FALSE
                   /\ result'.executedSteps \in 0..Len(run.steps)
                   /\ run'.pc = "done"
                   /\ recorded_workflows'[k].usageCount
                         = recorded_workflows[k].usageCount + 1
                   /\ tally'[run.workflowId].runs
                         = tally[run.workflowId].runs + 1]_vars
    /\ (run.pc = "running") ~> (run.pc = "done")

\* C11 witness: a run of the two-step workflow has returned after one step
\* threw and the other found no element
C11_Witness ==
    /\ run.pc = "done"
    /\ Len(StepsOf(run.workflowId)) = 2
    /\ result.op = "executeWorkflow" /\ result.thrown = FALSE
    /\ result.executedSteps = 1
    /\ hits = 0
    /\ tally[run.workflowId].runs = 1

IsCall(event) == event[1] = "call"

\* the page-control call that a step of this action issues
CallOf(action) ==
    CASE action = "fill_field" -> "inputTextElementNode"
      [] action = "click_element" -> "clickElementNode"
      [] action = "select_option" -> "selectDropdownOption"
      [] action = "key_press" -> "sendKeys"
      [] action = "navigate" -> "navigateTo"

C29_Pacing ==
    [][(\/ StartStep /\ run.i > 1
        \/ FinishExecute /\ Len(run.steps) > 0)
          => /\ run.baseDelay \in {100, 300, 800}
             /\ run.baseDelay <= run.waited
             /\ run.waited <= run.baseDelay + 200]_vars

-----------------------------------------------------------------------------
(* Response cache: ResponseCache *)

\* Times of the cache (Date.now(), timestamp, lastUsed) are in units of
\* 1,000,000 ms, the divisor of the cleanup score.
CACHE_EXPIRY == 2592    \* 30 * 24 * 60 * 60 * 1000 ms
HashBytes == 12         \* btoa(conceptHash).substring(0, 16) keeps 12 bytes

Range(s) == {s[i] : i \in DOMAIN s}

\* .replace(/\s+/g, ' '): runs of whitespace become one
RECURSIVE Collapse(_)
Collapse(words) ==
    IF Len(words) < 2 THEN words
    ELSE IF words[1] = " " /\ words[2] = " " THEN Collapse(Tail(words))
    ELSE <<words[1]>> \o Collapse(Tail(words))

\* String.prototype.trim
Trim(words) ==
    LET from == IF words # <<>> /\ words[1] = " " THEN 2 ELSE 1
        to == IF Len(words) >= from /\ words[Len(words)] = " "
              THEN Len(words) - 1 ELSE Len(words)
    IN  SubSeq(words, from, to)

\* toLowerCase, punctuation removed, whitespace collapsed, trimmed
IsWordOrSpace(tok) == tok \notin {"?", ".", ",", "!"}

Normalize(questionText) ==
    Trim(Collapse(SelectSeq(toLowerCase(questionText), IsWordOrSpace)))

\* The concept tags that the words of a normalized question give
ConceptsIn(words) ==
    LET has(word) == word \in words
        experience ==
            IF has("experience") \/ has("years")
            THEN {"experience"} \cup
                 (IF has("java") \/ has("python") \/ has("javascript")
                  THEN {"programming_experience"} ELSE {})
            ELSE {}
        concepts ==
            experience
            \cup (IF has("authorized") \/ has("legal") \/ has("work")
                  THEN {"work_authorization"} ELSE {})
            \cup (IF has("sponsor") \/ has("visa")
                  THEN {"visa_sponsorship"} ELSE {})
            \cup (IF has("degree") \/ has("bachelor") \/ has("education")
                  THEN {"education"} ELSE {})
            \cup (IF has("salary") \/ has("compensation") \/ has("pay")
                  THEN {"compensation"} ELSE {})
            \cup (IF has("start") \/ has("available") \/ has("notice")
                  THEN {"availability"} ELSE {})
            \cup (IF has("remote") \/ has("onsite") \/ has("relocate")
                  THEN {"location_preference"} ELSE {})
            \cup (IF has("why") /\ (has("interested") \/ has("apply"))
                  THEN {"why_interested"} ELSE {})
            \cup (IF has("why") /\ (has("qualified") \/ has("fit"))
                  THEN {"why_qualified"} ELSE {})
    IN  concepts

\* The concept tags of a normalized question
extractKeyConcepts(text) ==
    LET concepts == UNION {ConceptsIn(words) : words \in {Range(text)}}
    IN  IF concepts # {} THEN concepts ELSE {"general"}

\* The concept names in the order concepts.sort() puts them, with their
\* lengths in characters
ConceptOrder ==
    <<"availability", "compensation", "education", "experience", "general",
      "location_preference", "programming_experience", "visa_sponsorship",
      "why_interested", "why_qualified", "work_authorization">>

ConceptLength ==
    [c \in Range(ConceptOrder) |->
        CASE c = "availability" -> 12 [] c = "compensation" -> 12
          [] c = "education" -> 9 [] c = "experience" -> 10
          [] c = "general" -> 7 [] c = "location_preference" -> 19
          [] c = "programming_experience" -> 22
          [] c = "visa_sponsorship" -> 16 [] c = "why_interested" -> 14
          [] c = "why_qualified" -> 13 [] c = "work_authorization" -> 18]

\* The first take characters of a concept name, as a name that is the same
\* for two concepts exactly when those characters are: the names share no
\* more than "e" (education, experience), "w" (why_*, work_authorization)
\* and "why_" (why_interested, why_qualified).
PrefixOf(name, take) ==
    IF take >= ConceptLength[name] THEN name
    ELSE IF name \in {"education", "experience"} /\ take = 1 THEN "e"
    ELSE IF name \in {"why_interested", "why_qualified",
                      "work_authorization"} /\ take = 1 THEN "w"
    ELSE IF name \in {"why_interested", "why_qualified"} /\ take <= 4
    THEN "why_"
    ELSE name

\* The first room characters of sorted.join('_') from its k-th name on: the
\* pieces <<prefix, characters kept>>, a kept "_" being a piece of its own
RECURSIVE CutJoined(_, _, _)
CutJoined(sorted, k, room) ==
    IF k > Len(sorted) \/ room = 0 THEN <<>>
    ELSE LET sep == IF k > 1 THEN <<<<"_", 1>>>> ELSE <<>>
             take == Min(room - Len(sep), ConceptLength[sorted[k]])
         IN  sep \o (IF take > 0 THEN <<<<PrefixOf(sorted[k], take), take>>>>
                      ELSE <<>>)
                 \o CutJoined(sorted, k + 1, room - Len(sep) - take)

\* concepts.sort(), from the k-th name of ConceptOrder on
RECURSIVE Sorted(_, _)
Sorted(concepts, k) ==
    IF k > Len(ConceptOrder) THEN <<>>
    ELSE (IF ConceptOrder[k] \in concepts THEN <<ConceptOrder[k]>> ELSE <<>>)
         \o Sorted(concepts, k + 1)

\* Variant of the hash: the normalized question itself is the key.
generateQuestionHashText(questionText) == Normalize(questionText)

\* btoa(concepts.sort().join('_')).substring(0, 16)
generateQuestionHash(questionText) ==
    CHOOSE hash \in
        {CutJoined(Sorted(concepts, 1), 1, HashBytes) :
            concepts \in {extractKeyConcepts(Normalize(questionText))}} : TRUE

\* response.replace(/\[Company Name\]/g, context.companyName || ...)
personalizeResponse(response, context) ==
    [i \in DOMAIN response |->
        IF response[i] = "[Company Name]" /\ Get(context, "companyName") # <<>>
        THEN Get(context, "companyName")[1] ELSE response[i]]

\* this.cache.delete(hash)
Without(entries, hash) == [h \in DOMAIN entries \ {hash} |-> entries[h]]

\* this.cache.set(hash, entry)
With(entries, hash, entry) ==
    [h \in DOMAIN entries \cup {hash} |->
        IF h = hash THEN entry ELSE entries[h]]

\* Variant of the lookup: an entry expires 30 days after its last use.
getCachedResponseFromLastUse(entries, questionText, context, t) ==
    LET hash == generateQuestionHash(questionText)
    IN  IF hash \notin DOMAIN entries
        THEN [cache |-> entries, response |-> <<>>]
        ELSE IF t - entries[hash].lastUsed > CACHE_EXPIRY
        THEN [cache |-> Without(entries, hash), response |-> <<>>]
        ELSE [cache |-> [entries EXCEPT ![hash].useCount = @ + 1,
                                        ![hash].lastUsed = t],
              response |-> personalizeResponse(entries[hash].response,
                                               context)]

\* getCachedResponse at time t: the cache it leaves and the response, <<>>
\* for null
getCachedResponse(entries, questionText, context, t) ==
    LET hash == generateQuestionHash(questionText)
    IN  IF hash \notin DOMAIN entries
        THEN [cache |-> entries, response |-> <<>>]
        ELSE IF t - entries[hash].timestamp > CACHE_EXPIRY
        THEN [cache |-> Without(entries, hash), response |-> <<>>]
        ELSE [cache |-> [entries EXCEPT ![hash].useCount = @ + 1,
                                        ![hash].lastUsed = t],
              response |-> personalizeResponse(entries[hash].response,
                                               context)]

\* The CachedResponse that cacheResponse and batchCacheResponses build
NewEntry(questionText, response, t) ==
    [questionText |-> questionText, response |-> response,
     timestamp |-> t, lastUsed |-> t, useCount |-> 1]

\* aScore in the cleanup's sort: useCount + (now - lastUsed) / 1000000
Score(entry, t) == entry.useCount + (t - entry.lastUsed)

\* Variant of the cleanup: entries are only dropped when they have expired.
cleanupCacheExpiredOnly(entries, t) ==
    {[h \in {k \in DOMAIN entries :
                t - entries[k].timestamp < CACHE_EXPIRY} |-> entries[h]]}

\* cleanupCache at time t: the caches it can leave.  The expired entries go;
\* if more than MAX_CACHE_SIZE are left, they are sorted by descending
\* score and cut after MAX_CACHE_SIZE.  Entries of equal score stay in the
\* Map's insertion order, which the model does not keep: any of them can be
\* the one that is cut.
cleanupCache(entries, t) ==
    LET valid == {h \in DOMAIN entries :
                     t - entries[h].timestamp < CACHE_EXPIRY}
        kept == IF Cardinality(valid) <= MAX_CACHE_SIZE THEN {valid}
                ELSE {S \in SUBSET valid :
                        /\ Cardinality(S) = MAX_CACHE_SIZE
                        /\ \A a \in S, b \in valid \ S :
                              Score(entries[a], t) >= Score(entries[b], t)}
    IN  {[h \in S |-> entries[h]] : S \in kept}

\* cacheResponse at time t: the caches it can leave
cacheResponse(entries, questionText, response, t) ==
    LET set == With(entries, generateQuestionHash(questionText),
                    NewEntry(questionText, response, t))
    IN  IF Cardinality(DOMAIN set) > MAX_CACHE_SIZE
        THEN cleanupCache(set, t)
        ELSE {set}

-----------------------------------------------------------------------------
(* Cache behaviours: one ResponseCache, its callers and the clock *)

QAuthorized ==
    <<"Are", " ", "you", " ", "authorized", " ", "to", " ", "work", " ",
      "in", " ", "the", " ", "US", "?">>
QWorkAuthorization ==
    <<"Do", " ", "you", " ", "have", " ", "work", " ", "authorization", "?">>
QSalary == <<"salary", " ", "expectation", "?">>
QWhy == <<"why", " ", "interested">>
QDegree == <<"bachelor", " ", "degree", "?">>

CacheQuestions == {QAuthorized, QWorkAuthorization, QWhy}

\* the response a caller stores for a question
AnswerTo(questionText) ==
    CASE questionText = QAuthorized -> <<"Yes">>
      [] questionText = QWorkAuthorization -> <<"Yes", ",", "citizen">>
      [] questionText = QSalary -> <<"Competitive">>
      [] questionText = QWhy -> <<"I like", "[Company Name]">>
      [] OTHER -> <<"Yes", "(", "degree", ")">>

Contexts == {NoData, [companyName |-> <<"Acme">>]}

InitCache ==
    /\ input = <<>> /\ output = <<>> /\ phase = "system"
    /\ SystemAtRest

cacheFrame ==
    <<phase, pageOk, selectorMap, recording, listeners, recorder,
      recorded_workflows, result, resume, run, calls, hits, tally,
      observers, formObserverChanges, formObserver, jobhuntllm_workflows>>

\* clock ticks so far in a cache behaviour: the first one spans the expiry
\* time, the following ones are one unit each
CacheTicks == IF now = 0 THEN 0 ELSE now - CACHE_EXPIRY + 1

CacheTick ==
    /\ CacheTicks < MaxCacheTicks
    /\ now' = IF now = 0 THEN CACHE_EXPIRY ELSE now + 1
    /\ UNCHANGED <<cacheFrame, input, output, cache>>

CacheResponse ==
    /\ \E questionText \in CacheQuestions :
          /\ cache' \in cacheResponse(cache, questionText,
                                     AnswerTo(questionText), now)
          /\ input' = [op |-> "cacheResponse", questionText |-> questionText,
                       response |-> AnswerTo(questionText)]
    /\ output' = <<>>
    /\ UNCHANGED <<cacheFrame, now>>

\* input keeps the call and the entry it found under the question's hash
GetCachedResponseOf(questionText, context) ==
    /\ \A h \in DOMAIN cache : cache[h].useCount <= MaxUses
    /\ \E out \in {getCachedResponse(cache, questionText, context, now)} :
          /\ cache' = out.cache
          /\ output' = out.response
          /\ input' =
                [op |-> "getCachedResponse",
                 questionText |-> questionText,
                 context |-> context,
                 found |->
                    LET hash == generateQuestionHash(questionText)
                    IN  IF hash \in DOMAIN cache THEN <<cache[hash]>>
                        ELSE <<>>]
    /\ UNCHANGED <<cacheFrame, now>>

GetCachedResponse ==
    \E questionText \in CacheQuestions, context \in Contexts :
        GetCachedResponseOf(questionText, context)

\* a step that is the lookup its input' records
LookupStep ==
    /\ input' # <<>> /\ input'.op = "getCachedResponse"
    /\ now' = now
    /\ GetCachedResponseOf(input'.questionText, input'.context)

NextCache ==
    \/ CacheTick
    \/ CacheResponse
    \/ GetCachedResponse

SpecCache == InitCache /\ [][NextCache]_vars

ConceptsOf(questionText) == extractKeyConcepts(Normalize(questionText))

\* C13: a lookup in an empty cache returns null; a lookup without context
\* returns the stored response of every entry that has not expired and
\* whose question has the same concept tags as the question looked up.
C13_ConceptMatching ==
    [][LookupStep =>
          /\ DOMAIN cache = {} => output' = <<>>
          /\ \A h \in DOMAIN cache :
                (/\ ConceptsOf(cache[h].questionText)
                       = ConceptsOf(input'.questionText)
                 /\ now - cache[h].timestamp <= CACHE_EXPIRY
                 /\ input'.context = NoData)
                => output' = cache[h].response]_vars

\* C13 witness: the rephrased question got the answer stored for
\* "Are you authorized to work in the US?"
C13_Witness ==
    /\ input # <<>> /\ input.op = "getCachedResponse"
    /\ input.questionText = QWorkAuthorization
    /\ input.context = NoData
    /\ input.found # <<>> /\ input.found[1].questionText = QAuthorized
    /\ output = <<"Yes">>

\* C14: a lookup that finds an entry created more than CACHE_EXPIRY ago
\* returns null and leaves the cache without the entry's key; one that finds
\* an entry created less than CACHE_EXPIRY ago returns its response and
\* keeps the entry, whenever the entry was last used.
C14_ExpiryFromCreation ==
    [][LookupStep =>
          LET hash == generateQuestionHash(input'.questionText)
          IN  hash \in DOMAIN cache =>
                /\ now - cache[hash].timestamp > CACHE_EXPIRY
                      => output' = <<>> /\ hash \notin DOMAIN cache'
                /\ now - cache[hash].timestamp < CACHE_EXPIRY
                      => /\ output' # <<>>
                         /\ hash \in DOMAIN cache'
                         /\ cache'[hash].timestamp = cache[hash].timestamp
                         /\ cache'[hash].response = cache[hash].response]_vars

\* C14 witness: a lookup removed an entry that was created more than
\* CACHE_EXPIRY ago and last used less than CACHE_EXPIRY ago
C14_Witness ==
    /\ input # <<>> /\ input.op = "getCachedResponse"
    /\ input.found # <<>>
    /\ now - input.found[1].timestamp > CACHE_EXPIRY
    /\ now - input.found[1].lastUsed < CACHE_EXPIRY
    /\ input.found[1].lastUsed > input.found[1].timestamp
    /\ output = <<>>
    /\ generateQuestionHash(input.questionText) \notin DOMAIN cache

-----------------------------------------------------------------------------
(* cacheResponse on a cache with given contents *)

QVisa == <<"visa", " ", "sponsor", "?">>
QRemote == <<"remote", "?">>

\* questions with pairwise different hashes
KeyQuestions == <<QAuthorized, QSalary, QWhy, QDegree, QVisa, QRemote>>

\* An entry created age ago, last used idle ago, used useCount times
Aged(questionText, age, idle, useCount) ==
    [questionText |-> questionText, response |-> AnswerTo(questionText),
     timestamp |-> now - age, lastUsed |-> now - idle,
     useCount |-> useCount]

\* <<age, idle, useCount>> of the entries a cache is filled with: expired,
\* exactly CACHE_EXPIRY old, and three that have not expired
EntryShapes ==
    {<<CACHE_EXPIRY + 1, CACHE_EXPIRY + 1, 1>>,
     <<CACHE_EXPIRY, 1, 2>>,
     <<CACHE_EXPIRY - 1, CACHE_EXPIRY - 1, 1>>,
     <<10, 2, 2>>,
     <<1, 1, 1>>}

\* The caches holding the first n key questions, loaded or imported
LoadedCaches(n) ==
    {[h \in {generateQuestionHash(KeyQuestions[k]) : k \in 1..n} |->
        LET k == CHOOSE k \in 1..n :
                    generateQuestionHash(KeyQuestions[k]) = h
        IN  Aged(KeyQuestions[k], shape[k][1], shape[k][2], shape[k][3])] :
     shape \in [1..n -> EntryShapes]}

InitPut ==
    /\ now = 0
    /\ pageOk = TRUE
    /\ selectorMap = <<>>
    /\ recording = <<>>
    /\ listeners = 0
    /\ recorder = <<>>
    /\ recorded_workflows = <<>>
    /\ result = NoResult
    /\ resume = <<>>
    /\ run = <<>>
    /\ calls = <<>>
    /\ hits = 0
    /\ tally = <<>>
    /\ observers = 0
    /\ formObserverChanges = <<>>
    /\ formObserver = <<>>
    /\ jobhuntllm_workflows = <<>>
    /\ \E n \in 0..(MAX_CACHE_SIZE + 2) : cache \in LoadedCaches(n)
    /\ \E k \in 1..Min(MAX_CACHE_SIZE + 3, Len(KeyQuestions)) :
          input = [entries |-> cache, questionText |-> KeyQuestions[k],
                   response |-> <<"new">>]
    /\ output = <<>>
    /\ phase = "input"

\* await responseCache.cacheResponse(questionText, response), completed
Put ==
    /\ phase = "input"
    /\ cache' \in cacheResponse(cache, input.questionText, input.response,
                                now)
    /\ output' = cache'
    /\ phase' = "done"
    /\ UNCHANGED <<input, now, pageOk, selectorMap, recording, listeners,
                   recorder, recorded_workflows, result, resume, run, calls,
                   hits, tally, observers, formObserverChanges,
                   formObserver, jobhuntllm_workflows>>

NextPut == Put

SpecPut == InitPut /\ [][NextPut]_vars

\* C15: after a completed cacheResponse the cache holds at most
\* MAX_CACHE_SIZE entries, whatever it held before.
C15_Capacity ==
    phase = "done" => Cardinality(DOMAIN cache) <= MAX_CACHE_SIZE

\* C15 witness: a put into a cache that held more than MAX_CACHE_SIZE
\* unexpired entries left exactly MAX_CACHE_SIZE
C15_Witness ==
    /\ phase = "done"
    /\ Cardinality({h \in DOMAIN input.entries :
            now - input.entries[h].timestamp < CACHE_EXPIRY})
          > MAX_CACHE_SIZE
    /\ Cardinality(DOMAIN cache) = MAX_CACHE_SIZE

\* the cache right after this.cache.set in the completed put
AfterSet ==
    With(input.entries, generateQuestionHash(input.questionText),
         NewEntry(input.questionText, input.response, now))

\* the specified score: useCount minus the time since the last use over
\* the constant of the code
SpecScore(entry) == entry.useCount - (now - entry.lastUsed)

\* C16: when the put ran the cleanup, no expired entry is left; unexpired
\* entries are dropped only while more than MAX_CACHE_SIZE of them exist; a
\* dropped unexpired entry never has a higher score than a kept one, and
\* among entries of equal useCount the dropped one was not used more
\* recently than a kept one.
C16_EvictionOrder ==
    (phase = "done" /\ Cardinality(DOMAIN AfterSet) > MAX_CACHE_SIZE) =>
        LET valid == {h \in DOMAIN AfterSet :
                         now - AfterSet[h].timestamp < CACHE_EXPIRY}
            dropped == valid \ DOMAIN cache
        IN  /\ DOMAIN cache \subseteq valid
            /\ Cardinality(valid) <= MAX_CACHE_SIZE => dropped = {}
            /\ \A d \in dropped, k \in DOMAIN cache :
                  /\ SpecScore(AfterSet[d]) <= SpecScore(AfterSet[k])
                  /\ AfterSet[d].useCount = AfterSet[k].useCount
                        => AfterSet[d].lastUsed <= AfterSet[k].lastUsed

\* C33: right after cacheResponse(q, a) completed, getCachedResponse(q)
\* without a context returns a, whatever the cache held before, a cache at
\* or over capacity included.
C33_ReadYourWrite ==
    phase = "done" =>
        getCachedResponse(cache, input.questionText, NoData, now).response
            = input.response

-----------------------------------------------------------------------------
(* Cache construction: the load started by the constructor and the callers
   that do not wait for it.  chrome.storage.local.get is issued in the
   constructor, before any write of the instance, so what it delivers is
   the stored value at construction: input.stored, <<>> when the key is
   absent or the read fails, <<entries>> when an array is stored. *)

\* the continuation of loadCache after the read: the cache it leaves
loadCache(entries, stored) ==
    IF stored # <<>> THEN stored[1] ELSE entries

\* batchCacheResponses at time t: every entry is set, no cleanup
RECURSIVE batchCacheResponses(_, _, _)
batchCacheResponses(entries, questions, t) ==
    IF questions = <<>> THEN entries
    ELSE batchCacheResponses(
            With(entries, generateQuestionHash(Head(questions)),
                 NewEntry(Head(questions), AnswerTo(Head(questions)), t)),
            Tail(questions), t)

Batches == {<<QWhy>>, <<QSalary, QDegree>>}

InitLoad ==
    /\ SystemAtRest
    /\ phase = "loading"
    /\ output = <<>>
    /\ \E n \in 0..MAX_CACHE_SIZE, absent \in BOOLEAN :
          \E entries \in LoadedCaches(n) :
             input = [stored |-> IF absent THEN <<>> ELSE <<entries>>]

loadFrame ==
    <<input, now, pageOk, selectorMap, recording, listeners, recorder,
      recorded_workflows, result, resume, run, calls, hits, tally,
      observers, formObserverChanges, formObserver, jobhuntllm_workflows>>

\* the read of the constructor's loadCache resolves
LoadCacheResolves ==
    /\ phase = "loading"
    /\ cache' = loadCache(cache, input.stored)
    /\ phase' = "loaded"
    /\ output' = <<>>
    /\ UNCHANGED loadFrame

\* cacheResponse by a caller, before or after the load resolved
LoadCacheResponse ==
    /\ \E questionText \in Range(KeyQuestions) :
          /\ cache' \in cacheResponse(cache, questionText,
                                     AnswerTo(questionText), now)
          /\ output' = <<questionText>>
    /\ UNCHANGED <<phase, loadFrame>>

\* batchCacheResponses by a caller, before or after the load resolved
LoadBatchCacheResponses ==
    /\ \E questions \in Batches :
          /\ cache' = batchCacheResponses(cache, questions, now)
          /\ output' = questions
    /\ UNCHANGED <<phase, loadFrame>>

NextLoad ==
    \/ LoadCacheResolves
    \/ LoadCacheResponse
    \/ LoadBatchCacheResponses

SpecLoad == InitLoad /\ [][NextLoad]_vars

\* C34: an entry that cacheResponse or batchCacheResponses inserted before
\* the constructor's load resolved is still in the cache, unchanged, after
\* the load resolved.
C34_LoadKeepsInserted ==
    [][LoadCacheResolves
          => \A h \in DOMAIN cache :
                h \in DOMAIN cache' /\ cache'[h] = cache[h]]_vars

-----------------------------------------------------------------------------
(* Cache backup: exportCache and importCache.  A text is [valid |-> FALSE]
   when JSON.parse throws on it and [valid |-> TRUE, data |-> value]
   otherwise; a value is null, a string, an array of values or an object,
   told apart by its kind. *)

JsonNull == [kind |-> "null"]
JsonString == [kind |-> "string"]
JsonNumber == [kind |-> "number"]
JsonArray(items) == [kind |-> "array", items |-> items]
JsonObject(fields) == [kind |-> "object", fields |-> fields]
Unparseable == [valid |-> FALSE]

\* Array.from(this.cache.entries()): the pairs [hash, entry], as arrays
RECURSIVE EntriesArray(_, _)
EntriesArray(entries, keys) ==
    IF keys = {} THEN <<>>
    ELSE LET hash == CHOOSE h \in keys : TRUE
         IN  <<JsonArray(<<hash, entries[hash]>>)>>
                \o EntriesArray(entries, keys \ {hash})

\* new Map(items): a later pair replaces an earlier one of the same key
RECURSIVE NewMap(_)
NewMap(items) ==
    IF items = <<>> THEN <<>>
    ELSE With(NewMap(SubSeq(items, 1, Len(items) - 1)),
              items[Len(items)].items[1], items[Len(items)].items[2])

\* exportCache at time t: JSON.stringify of version, timestamp, entries and
\* statistics
exportCache(entries, t) ==
    [valid |-> TRUE,
     data |-> JsonObject(
        [version |-> JsonString,
         timestamp |-> JsonNumber,
         entries |-> JsonArray(EntriesArray(entries, DOMAIN entries)),
         stats |-> JsonObject(
            [totalEntries |-> JsonNumber, cacheSize |-> JsonNumber])])]

\* data.entries && Array.isArray(data.entries); reading a property of null
\* throws
HasEntriesArray(data) ==
    /\ data.kind = "object"
    /\ "entries" \in DOMAIN data.fields
    /\ data.fields.entries.kind = "array"

\* Variant of importCache: a text without an entries array empties the cache
importCacheLenient(entries, stored, cacheData, fault) ==
    IF ~ cacheData.valid
    THEN [cache |-> entries, stored |-> stored, returned |-> FALSE]
    ELSE IF ~ HasEntriesArray(cacheData.data)
    THEN [cache |-> <<>>, stored |-> IF fault THEN stored ELSE <<<<>>>>,
          returned |-> TRUE]
    ELSE IF \E k \in DOMAIN cacheData.data.fields.entries.items :
               cacheData.data.fields.entries.items[k].kind # "array"
    THEN [cache |-> entries, stored |-> stored, returned |-> FALSE]
    ELSE [cache |-> NewMap(cacheData.data.fields.entries.items),
          stored |-> IF fault THEN stored
                     ELSE <<NewMap(cacheData.data.fields.entries.items)>>,
          returned |-> TRUE]

\* importCache(cacheData) on the cache entries with the stored value stored:
\* the cache and the stored value it leaves and what it returns.  fault is
\* a rejection of chrome.storage.local.set, which saveCache only logs.  An
\* item of the entries array that is no entry makes new Map throw before
\* the assignment.
importCache(entries, stored, cacheData, fault) ==
    IF ~ cacheData.valid
    THEN [cache |-> entries, stored |-> stored, returned |-> FALSE]
    ELSE IF ~ HasEntriesArray(cacheData.data)
    THEN [cache |-> entries, stored |-> stored, returned |-> FALSE]
    ELSE IF \E k \in DOMAIN cacheData.data.fields.entries.items :
               cacheData.data.fields.entries.items[k].kind # "array"
    THEN [cache |-> entries, stored |-> stored, returned |-> FALSE]
    ELSE [cache |-> NewMap(cacheData.data.fields.entries.items),
          stored |-> IF fault THEN stored
                     ELSE <<NewMap(cacheData.data.fields.entries.items)>>,
          returned |-> TRUE]

\* The texts handed to importCache on a cache: its own export, the export of
\* another cache, and texts that are not backups
BackupTexts(entries) ==
    {[source |-> "export", text |-> exportCache(entries, now)],
     [source |-> "other",
      text |-> exportCache(With(<<>>, generateQuestionHash(QRemote),
                                NewEntry(QRemote, <<"Yes">>, now)), now)],
     [source |-> "invalid", text |-> Unparseable],
     [source |-> "null", text |-> [valid |-> TRUE, data |-> JsonNull]],
     [source |-> "no entries",
      text |-> [valid |-> TRUE,
                data |-> JsonObject([version |-> JsonString])]],
     [source |-> "entries no array",
      text |-> [valid |-> TRUE,
                data |-> JsonObject([entries |-> JsonString])]],
     [source |-> "items no entries",
      text |-> [valid |-> TRUE,
                data |-> JsonObject(
                            [entries |-> JsonArray(<<JsonNumber>>)])]]}

InitImport ==
    /\ now = 0
    /\ pageOk = TRUE
    /\ selectorMap = <<>>
    /\ recording = <<>>
    /\ listeners = 0
    /\ recorder = <<>>
    /\ recorded_workflows = <<>>
    /\ result = NoResult
    /\ resume = <<>>
    /\ run = <<>>
    /\ calls = <<>>
    /\ hits = 0
    /\ tally = <<>>
    /\ observers = 0
    /\ formObserverChanges = <<>>
    /\ formObserver = <<>>
    /\ jobhuntllm_workflows = <<>>
    /\ \E n \in 0..MAX_CACHE_SIZE : cache \in LoadedCaches(n)
    /\ \E backup \in BackupTexts(cache), saved \in BOOLEAN,
          fault \in BOOLEAN :
          input = [entries |-> cache,
                   stored |-> IF saved THEN <<cache>> ELSE <<>>,
                   source |-> backup.source,
                   cacheData |-> backup.text,
                   fault |-> fault]
    /\ output = <<>>
    /\ phase = "input"

\* await responseCache.importCache(cacheData), completed
ImportCache ==
    /\ phase = "input"
    /\ \E out \in {importCache(cache, input.stored, input.cacheData,
                                input.fault)} :
          /\ cache' = out.cache
          /\ output' = [returned |-> out.returned, stored |-> out.stored]
    /\ phase' = "done"
    /\ UNCHANGED <<input, now, pageOk, selectorMap, recording, listeners,
                   recorder, recorded_workflows, result, resume, run, calls,
                   hits, tally, observers, formObserverChanges,
                   formObserver, jobhuntllm_workflows>>

NextImport == ImportCache

SpecImport == InitImport /\ [][NextImport]_vars

-----------------------------------------------------------------------------
(* Cache keys: generateQuestionHash on pairs of questions *)

QStart == <<"When", " ", "can", " ", "you", " ", "start", "?">>
QStartSalary ==
    <<"start", " ", "date", " ", "and", " ", "salary", "?">>
QDegreeInterested == <<"degree", ",", " ", "why", " ", "interested", "?">>
QDegreeFit == <<"degree", ",", " ", "why", " ", "fit", "?">>
QYearsJava == <<"years", " ", "of", " ", "Java", "?">>
QHello == <<"hello">>

HashQuestions ==
    {QAuthorized, QWorkAuthorization, QSalary, QWhy, QDegree, QVisa, QRemote,
     QStart, QStartSalary, QDegreeInterested, QDegreeFit, QYearsJava, QHello}

InitHash ==
    /\ SystemAtRest
    /\ phase = "input"
    /\ output = <<>>
    /\ input \in [first : HashQuestions, second : HashQuestions]

\* the keys of the two questions
HashBoth ==
    /\ phase = "input"
    /\ output' = [first |-> generateQuestionHash(input.first),
                  second |-> generateQuestionHash(input.second)]
    /\ phase' = "done"
    /\ UNCHANGED <<input, sysVars>>

NextHash == HashBoth

SpecHash == InitHash /\ [][NextHash]_vars

\* C32: two questions get the same cache key exactly when their concept
\* sets are equal; questions with different concept sets never share a key.
C32_KeyIffConcepts ==
    phase = "done" =>
        ((output.first = output.second)
            <=> (ConceptsOf(input.first) = ConceptsOf(input.second)))

-----------------------------------------------------------------------------
(* RateLimiter. Instants are counted in units of 2000 ms. *)

\* this.calls.filter(time => now - time < this.timeWindow), on instants
\* no older than the window allows (variant: <=)
RECURSIVE RecentInclusive(_, _)
RecentInclusive(times, t) ==
    IF times = <<>> THEN <<>>
    ELSE (IF t - Head(times) <= timeWindow THEN <<Head(times)>> ELSE <<>>)
            \o RecentInclusive(Tail(times), t)

\* this.calls.filter(time => now - time < this.timeWindow)
RECURSIVE Recent(_, _)
Recent(times, t) ==
    IF times = <<>> THEN <<>>
    ELSE (IF t - Head(times) < timeWindow THEN <<Head(times)>> ELSE <<>>)
            \o Recent(Tail(times), t)

\* Variant of canProceed whose filter keeps an instant exactly timeWindow old
canProceedInclusive(times, t) ==
    LET kept == RecentInclusive(times, t)
    IN  IF Len(kept) >= maxCalls THEN [calls |-> kept, granted |-> FALSE]
        ELSE [calls |-> Append(kept, t), granted |-> TRUE]

\* RateLimiter.canProceed at Date.now() = t: the calls it leaves and what
\* it returns
canProceed(times, t) ==
    LET kept == Recent(times, t)
    IN  IF Len(kept) >= maxCalls THEN [calls |-> kept, granted |-> FALSE]
        ELSE [calls |-> Append(kept, t), granted |-> TRUE]

\* time between two canProceed calls
Gaps == {0, 1, timeWindow - 1, timeWindow}

\* the instants of n calls, none earlier than the one before
CallTimes(n) ==
    {times \in [1..n -> 0..((n - 1) * timeWindow)] :
        /\ times[1] = 0
        /\ \A k \in 2..n : times[k] - times[k - 1] \in Gaps}

InitLimiter ==
    /\ SystemAtRest
    /\ phase = "input"
    /\ \E n \in 1..MaxCanProceed : input \in CallTimes(n)
    /\ output = [calls |-> <<>>, results |-> <<>>]

\* the next call of the run
CanProceed ==
    /\ phase = "input"
    /\ \E out \in {canProceed(output.calls,
                               input[Len(output.results) + 1])} :
          output' = [calls |-> out.calls,
                     results |-> Append(output.results, out.granted)]
    /\ phase' = IF Len(output.results) + 1 = Len(input) THEN "done"
                ELSE "input"
    /\ UNCHANGED <<input, sysVars>>

NextLimiter == CanProceed

SpecLimiter == InitLimiter /\ [][NextLimiter]_vars

\* the earlier calls of the run that were granted less than timeWindow
\* before instant t
GrantedWithin(upTo, t) ==
    {j \in 1..upTo : output.results[j] /\ t - input[j] < timeWindow}

\* C17: in a run of canProceed calls at non-decreasing instants, every
\* half-open interval of length timeWindow holds at most maxCalls granted
\* calls; a call is denied exactly when maxCalls earlier granted instants
\* are less than timeWindow old; this.calls holds one instant per granted
\* call that is less than timeWindow old and none for a denied call.
C17_RateLimit ==
    LET n == Len(output.results)
    IN  /\ \A from \in 0..(MaxCanProceed * timeWindow) :
              Cardinality({j \in 1..n : /\ output.results[j]
                                        /\ from <= input[j]
                                        /\ input[j] < from + timeWindow})
                 <= maxCalls
        /\ \A k \in 1..n :
              /\ Cardinality(GrantedWithin(k - 1, input[k])) <= maxCalls
              /\ output.results[k] = FALSE
                    <=> Cardinality(GrantedWithin(k - 1, input[k])) = maxCalls
        /\ n > 0 =>
              /\ Len(output.calls) = Cardinality(GrantedWithin(n, input[n]))
              /\ \A i \in DOMAIN output.calls :
                    Cardinality({k \in DOMAIN output.calls :
                                    output.calls[k] = output.calls[i]})
                       = Cardinality({j \in GrantedWithin(n, input[n]) :
                                        input[j] = output.calls[i]})

\* C17 witness: a call was denied with maxCalls permits in the window, and
\* a later call was granted once the window had moved on
C17_Witness ==
    /\ phase = "done"
    /\ \E k \in DOMAIN output.results :
          /\ output.results[k] = FALSE
          /\ \E j \in DOMAIN output.results : j > k /\ output.results[j]
    /\ Len(output.calls) = maxCalls

-----------------------------------------------------------------------------
(* DynamicFormObserver: the page's MutationObserver, the pollers and the
   question batches. Instants are kept relative to the present: Date.now()
   reads 0 and an instant a units of 2000 ms ago is -a. *)

RetryDelay == 1         \* setTimeout(..., 2000)

Max(a, b) == IF a > b THEN a ELSE b

\* the keys of groupQuestionsByType, in insertion order
QuestionTypes == <<"standard", "experience", "education", "salary", "essay">>

\* A form field: <<n, type>>, the number standing for what generateFieldHash
\* reads and the type being what categorizeField gives
TypeOf(field) == field[2]

\* The question fields the id-th mutation batch can bring: fields added to
\* the form, or two fields it already had (attribute changes)
MutationBatches(id) ==
    {{<<id, "experience">>, <<id, "essay">>},
     {<<1, "essay">>, <<0, "standard">>}}

\* the setInterval timers of two startChangePolling calls
Pollers == {"first", "second"}

NewBatch(elements) ==
    [elements |-> elements, stage |-> "buffered", poller |-> "none",
     returns |-> 0, questions |-> {}, denied |-> FALSE, due |-> 0,
     remaining |-> <<>>, viaPoll |-> FALSE]

NewObserver ==
    [calls |-> <<>>, isProcessing |-> FALSE, processedQuestions |-> {},
     batches |-> <<>>, oracle |-> <<>>, answered |-> {}]

\* Variant of the poll's page evaluation: reads the buffer and leaves it
drainChangesKeep(buffer) == [returned |-> buffer, buffer |-> buffer]

\* page.evaluate of startChangePolling: what it returns and what it leaves
\* in window.formObserverChanges
drainChanges(buffer) == [returned |-> buffer, buffer |-> <<>>]

\* Variant of the filter: every field goes on
filterNewQuestionsAll(fields, processedQuestions) == fields

\* fields.filter(...) on question fields: those with an entry in
\* processedQuestions are left out
filterNewQuestions(fields, processedQuestions) == fields \ processedQuestions

\* the non-empty groups in the order of Object.entries(questionGroups)
RECURSIVE GroupsFrom(_, _)
GroupsFrom(k, questions) ==
    IF k > Len(QuestionTypes) THEN <<>>
    ELSE (IF \E q \in questions : TypeOf(q) = QuestionTypes[k]
          THEN <<QuestionTypes[k]>>
          ELSE <<>>) \o GroupsFrom(k + 1, questions)

groupQuestionsByType(questions) == GroupsFrom(1, questions)

\* Variant of getAnswersForQuestionGroup: every type goes to callLLMBatch
getAnswersForQuestionGroupAlways(oracle, type, t) == Append(oracle, t)

\* callLLMBatch is reached for every type but 'standard'; oracle keeps the
\* instants of the calls
getAnswersForQuestionGroup(oracle, type, t) ==
    IF type = "standard" THEN oracle ELSE Append(oracle, t)

\* processQuestionGroup(type, group) of batch id
processQuestionGroup(o, id, type, resumeData) ==
    IF resumeData = NoResume THEN o
    ELSE LET group == {q \in o.batches[id].questions : TypeOf(q) = type}
             uncachedQuestions == group \ o.processedQuestions
         IN  [o EXCEPT !.oracle =
                          IF uncachedQuestions # {}
                          THEN getAnswersForQuestionGroup(@, type, now)
                          ELSE @,
                       !.processedQuestions = @ \cup uncachedQuestions,
                       !.answered = @ \cup group]

\* Variant of processQuestionsBatch: a denied batch is given up
processQuestionsBatchDrop(o, id, questions, viaPoll) ==
    LET out == canProceed(o.calls, now)
    IN  IF ~ out.granted
        THEN [o EXCEPT !.calls = out.calls,
                       !.batches[id] = [@ EXCEPT !.stage = "dropped",
                                                 !.questions = questions,
                                                 !.elements = {},
                                                 !.denied = TRUE,
                                                 !.poller = "none"]]
        ELSE [o EXCEPT !.calls = out.calls,
                       !.batches[id] =
                          [@ EXCEPT !.stage = "running",
                                    !.questions = questions,
                                    !.elements = {},
                                    !.remaining =
                                        groupQuestionsByType(questions),
                                    !.viaPoll = viaPoll,
                                    !.poller = "none"],
                       !.isProcessing = IF viaPoll THEN TRUE ELSE @]

\* processQuestionsBatch(questions) up to its first await after the permit:
\* denied, the batch waits for its timer; granted, its groups are pending
processQuestionsBatch(o, id, questions, viaPoll) ==
    LET out == canProceed(o.calls, now)
    IN  IF ~ out.granted
        THEN [o EXCEPT !.calls = out.calls,
                       !.batches[id] = [@ EXCEPT !.stage = "deferred",
                                                 !.questions = questions,
                                                 !.elements = {},
                                                 !.denied = TRUE,
                                                 !.due = RetryDelay,
                                                 !.poller = "none"]]
        ELSE [o EXCEPT !.calls = out.calls,
                       !.batches[id] =
                          [@ EXCEPT !.stage = "running",
                                    !.questions = questions,
                                    !.elements = {},
                                    !.remaining =
                                        groupQuestionsByType(questions),
                                    !.viaPoll = viaPoll,
                                    !.poller = "none"],
                       !.isProcessing = IF viaPoll THEN TRUE ELSE @]

InitWatch ==
    /\ input = <<>> /\ output = <<>> /\ phase = "system"
    /\ now = 0
    /\ pageOk = TRUE
    /\ selectorMap = <<>>
    /\ recording = <<>>
    /\ listeners = 0
    /\ recorder = <<>>
    /\ recorded_workflows = <<>>
    /\ result = NoResult
    /\ resume \in {NoResume, SampleResume}
    /\ run = <<>>
    /\ calls = <<>>
    /\ hits = 0
    /\ tally = <<>>
    /\ observers = 1
    /\ formObserverChanges = <<>>
    /\ formObserver = NewObserver
    /\ cache = <<>>
    /\ jobhuntllm_workflows = <<>>

watchFrame ==
    <<input, output, phase, now, pageOk, selectorMap, recording, listeners,
      recorder, recorded_workflows, result, resume, run, calls, hits, tally,
      observers, cache, jobhuntllm_workflows>>

\* the MutationObserver callback with hasFormChanges: the buffer is
\* overwritten
ObserverCallbackUpTo(n) ==
    /\ Len(formObserver.batches) < n
    /\ \E elements \in MutationBatches(Len(formObserver.batches) + 1) :
          LET id == Len(formObserver.batches) + 1
              seen == IF /\ formObserverChanges # <<>>
                         /\ formObserver.batches[formObserverChanges.batch]
                               .stage = "buffered"
                      THEN [formObserver.batches EXCEPT
                               ![formObserverChanges.batch] =
                                   [@ EXCEPT !.stage = "lost",
                                             !.elements = {}]]
                      ELSE formObserver.batches
          IN  /\ formObserverChanges' =
                    [batch |-> id, elements |-> elements]
              /\ formObserver' =
                    [formObserver EXCEPT
                        !.batches = Append(seen, NewBatch(elements))]
    /\ UNCHANGED watchFrame

ObserverCallback == ObserverCallbackUpTo(MaxBatches)

\* a poll tick of poller p whose page evaluation finds the buffer set
PollEvaluate(p) ==
    /\ formObserverChanges # <<>>
    /\ \A k \in DOMAIN formObserver.batches :
          ~ (/\ formObserver.batches[k].stage = "returned"
             /\ formObserver.batches[k].poller = p)
    /\ \E out \in {drainChanges(formObserverChanges)} :
          /\ formObserverChanges' = out.buffer
          /\ formObserver' =
                [formObserver EXCEPT
                    !.batches[out.returned.batch] =
                        [@ EXCEPT !.stage = "returned", !.poller = p,
                                  !.returns = @ + 1]]
    /\ UNCHANGED watchFrame

\* Variant of processFormChanges without the isProcessing test
processFormChangesQueued(p, id) ==
    /\ id \in DOMAIN formObserver.batches
    /\ formObserver.batches[id].stage = "returned"
    /\ formObserver.batches[id].poller = p
    /\ formObserver' =
          LET questionsToProcess ==
                 filterNewQuestions(formObserver.batches[id].elements,
                                    formObserver.processedQuestions)
          IN  IF questionsToProcess = {}
              THEN [formObserver EXCEPT
                       !.batches[id] = [@ EXCEPT !.stage = "empty",
                                                 !.elements = {},
                                                 !.poller = "none"]]
              ELSE processQuestionsBatch(formObserver, id,
                                         questionsToProcess, TRUE)
    /\ UNCHANGED <<watchFrame, formObserverChanges>>

\* the tick goes on in the background: processFormChanges(changes) up to
\* the first await of processQuestionsBatch
processFormChanges(p, id) ==
    /\ id \in DOMAIN formObserver.batches
    /\ formObserver.batches[id].stage = "returned"
    /\ formObserver.batches[id].poller = p
    /\ formObserver' =
          IF formObserver.isProcessing
          THEN [formObserver EXCEPT
                   !.batches[id] = [@ EXCEPT !.stage = "skipped",
                                             !.elements = {},
                                             !.poller = "none"]]
          ELSE LET questionsToProcess ==
                      filterNewQuestions(formObserver.batches[id].elements,
                                         formObserver.processedQuestions)
               IN  IF questionsToProcess = {}
                   THEN [formObserver EXCEPT
                            !.batches[id] = [@ EXCEPT !.stage = "empty",
                                                      !.elements = {},
                                                      !.poller = "none"]]
                   ELSE processQuestionsBatch(formObserver, id,
                                              questionsToProcess, TRUE)
    /\ UNCHANGED <<watchFrame, formObserverChanges>>

\* the timer of a denied batch fires: processQuestionsBatch(questions)
TimerFire(id) ==
    /\ id \in DOMAIN formObserver.batches
    /\ formObserver.batches[id].stage = "deferred"
    /\ formObserver.batches[id].due = 0
    /\ formObserver' =
          processQuestionsBatch(formObserver, id,
                                formObserver.batches[id].questions, FALSE)
    /\ UNCHANGED <<watchFrame, formObserverChanges>>

\* one iteration of the loop over the groups of a permitted batch
ProcessGroup(id) ==
    /\ id \in DOMAIN formObserver.batches
    /\ formObserver.batches[id].stage = "running"
    /\ \E o \in {processQuestionGroup(formObserver, id,
                     Head(formObserver.batches[id].remaining), resume)} :
          formObserver' =
             IF Len(o.batches[id].remaining) > 1
             THEN [o EXCEPT !.batches[id].remaining = Tail(@)]
             ELSE [o EXCEPT !.batches[id] =
                               [@ EXCEPT !.remaining = <<>>,
                                         !.stage = "processed",
                                         !.viaPoll = FALSE],
                            !.isProcessing =
                               IF o.batches[id].viaPoll THEN FALSE ELSE @]
    /\ UNCHANGED <<watchFrame, formObserverChanges>>

\* instants one unit older; those beyond the window stay just beyond it
Older(times) ==
    [k \in DOMAIN times |-> Max(times[k] - 1, 0 - (timeWindow + 1))]

\* 2000 ms pass
Elapse ==
    /\ formObserver' =
          [formObserver EXCEPT
              !.calls = Older(@),
              !.oracle = Recent(Older(@), now),
              !.batches = [k \in DOMAIN @ |->
                              [@[k] EXCEPT !.due = Max(@ - 1, 0)]]]
    /\ UNCHANGED <<watchFrame, formObserverChanges>>

NextWatch ==
    \/ ObserverCallback
    \/ \E p \in Pollers : PollEvaluate(p)
    \/ \E p \in Pollers, id \in 1..MaxBatches : processFormChanges(p, id)
    \/ \E id \in 1..MaxBatches : TimerFire(id)
    \/ \E id \in 1..MaxBatches : ProcessGroup(id)
    \/ Elapse

SpecWatch == InitWatch /\ [][NextWatch]_vars

\* time passes, timers fire and a permitted batch goes through its groups
SpecWatchFair ==
    /\ SpecWatch
    /\ WF_vars(Elapse)
    /\ \A id \in 1..MaxBatches :
          WF_vars(TimerFire(id)) /\ WF_vars(ProcessGroup(id))

-----------------------------------------------------------------------------
(* Starting and stopping the watcher: 'listeners' counts the setInterval
   timers of the instance, 'observers' the MutationObservers in
   window.formObservers, phase is "stopped" from a return of stopObserving
   to the next startObserving; this.observers, which stopObserving clears,
   is a Map that nothing ever adds to. *)

InitObserve ==
    /\ input = <<>> /\ output = <<>> /\ phase = "idle"
    /\ now = 0
    /\ pageOk = TRUE
    /\ selectorMap = <<>>
    /\ recording = <<>>
    /\ listeners = 0
    /\ recorder = <<>>
    /\ recorded_workflows = <<>>
    /\ result = NoResult
    /\ resume \in {NoResume, SampleResume}
    /\ run = <<>>
    /\ calls = <<>>
    /\ hits = 0
    /\ tally = <<>>
    /\ observers = 0
    /\ formObserverChanges = <<>>
    /\ formObserver = NewObserver
    /\ cache = <<>>
    /\ jobhuntllm_workflows = <<>>

\* the timers that tick: one per startChangePolling call
ActivePollers ==
    IF listeners = 0 THEN {}
    ELSE IF listeners = 1 THEN {"first"} ELSE Pollers

\* startObserving: the page observer is installed under a new id and a
\* timer is started; when the page cannot be reached, only the error is
\* logged
StartObserving ==
    /\ listeners < Cardinality(Pollers)
    /\ \E reached \in BOOLEAN :
          IF reached
          THEN /\ observers' = observers + 1
               /\ listeners' = listeners + 1
          ELSE UNCHANGED <<observers, listeners>>
    /\ phase' = "observing"
    /\ UNCHANGED <<input, output, now, pageOk, selectorMap, recording,
                   recorder, recorded_workflows, result, resume, run, calls,
                   hits, tally, formObserverChanges, formObserver, cache,
                   jobhuntllm_workflows>>

\* stopObserving: disconnects and clears the entries of this.observers,
\* of which there are none
StopObserving ==
    /\ phase' = "stopped"
    /\ UNCHANGED <<input, output, now, pageOk, selectorMap, recording,
                   listeners, recorder, recorded_workflows, result, resume,
                   run, calls, hits, tally, observers, formObserverChanges,
                   formObserver, cache, jobhuntllm_workflows>>

ObservedCallback == observers > 0 /\ ObserverCallback

NextObserve ==
    \/ StartObserving
    \/ StopObserving
    \/ ObservedCallback
    \/ \E p \in ActivePollers : PollEvaluate(p)
    \/ \E p \in Pollers, id \in 1..MaxBatches : processFormChanges(p, id)
    \/ \E id \in 1..MaxBatches : TimerFire(id)
    \/ \E id \in 1..MaxBatches : ProcessGroup(id)
    \/ Elapse

SpecObserve == InitObserve /\ [][NextObserve]_vars

\* C36: from the return of stopObserving on, no poll tick drains the
\* buffer, no question is put to the oracle and no answer is written back;
\* and however often startObserving was called, at most one timer polls.
C36_StopEndsPolling ==
    /\ [][(phase = "stopped" /\ phase' = "stopped")
             => /\ ~ (formObserverChanges # <<>>
                         /\ formObserverChanges' = <<>>)
                /\ Len(formObserver'.oracle) <= Len(formObserver.oracle)
                /\ formObserver'.answered = formObserver.answered]_vars
    /\ [](listeners <= 1)

\* C18: the oracle calls of the last timeWindow never exceed maxCalls.
C18_OracleBounded == Len(formObserver.oracle) <= maxCalls

\* canProceed is about to deny batch id: a drained batch with new questions
\* while nothing is being processed, or a batch whose timer has run out
AboutToDeny(id) ==
    /\ id \in DOMAIN formObserver.batches
    /\ \/ /\ formObserver.batches[id].stage = "returned"
          /\ ~ formObserver.isProcessing
          /\ filterNewQuestions(formObserver.batches[id].elements,
                                formObserver.processedQuestions) # {}
       \/ /\ formObserver.batches[id].stage = "deferred"
          /\ formObserver.batches[id].due = 0
    /\ ~ canProceed(formObserver.calls, now).granted

\* C19: the step in which canProceed denies a batch answers no question,
\* fills no field, calls no oracle and leaves the batch waiting for a timer
\* of RetryDelay with the questions it had; and when time passes and timers
\* fire, every batch that was denied is processed in the end.
C19_DenialDefers ==
    /\ [][\A id \in 1..MaxBatches :
            (AboutToDeny(id)
                /\ formObserver'.batches[id] # formObserver.batches[id])
            => /\ formObserver'.answered = formObserver.answered
               /\ formObserver'.processedQuestions
                     = formObserver.processedQuestions
               /\ formObserver'.oracle = formObserver.oracle
               /\ formObserver'.batches[id].stage = "deferred"
               /\ formObserver'.batches[id].due = RetryDelay
               /\ formObserver'.batches[id].questions
                     = filterNewQuestions(formObserver.batches[id].elements,
                                          formObserver.processedQuestions)
                        \cup formObserver.batches[id].questions]_vars
    /\ \A id \in 1..MaxBatches :
          (id \in DOMAIN formObserver.batches
              /\ formObserver.batches[id].denied)
          ~> (id \in DOMAIN formObserver.batches
                 /\ formObserver.batches[id].stage = "processed")

\* C19 witness: a batch that was denied has been processed and its fields
\* are filled
C19_Witness ==
    \E id \in DOMAIN formObserver.batches :
        /\ formObserver.batches[id].denied
        /\ formObserver.batches[id].stage = "processed"
        /\ formObserver.batches[id].questions \subseteq formObserver.answered

\* C20: no mutation batch is returned by more than one poll tick.
C20_DrainedOnce ==
    \A id \in DOMAIN formObserver.batches :
        formObserver.batches[id].returns <= 1

\* C20 witness: two batches were written and each was returned by a poll
\* tick of a different poller
C20_Witness ==
    /\ Len(formObserver.batches) >= 2
    /\ formObserver.batches[1].returns = 1
    /\ formObserver.batches[2].returns = 1
    /\ formObserver.batches[1].stage = "returned"
    /\ formObserver.batches[2].stage = "returned"
    /\ formObserver.batches[1].poller # formObserver.batches[2].poller

\* The watcher with one mutation batch more, so that a batch can arrive
\* while the retry of a denied one is being processed
LongBatches == MaxBatches + 1

LongCallback == ObserverCallbackUpTo(LongBatches)

NextWatchLong ==
    \/ LongCallback
    \/ \E p \in Pollers : PollEvaluate(p)
    \/ \E p \in Pollers, id \in 1..LongBatches : processFormChanges(p, id)
    \/ \E id \in 1..LongBatches : TimerFire(id)
    \/ \E id \in 1..LongBatches : ProcessGroup(id)
    \/ Elapse

SpecWatchLong == InitWatch /\ [][NextWatchLong]_vars

\* the batches whose processQuestionsBatch execution is between its permit
\* and the end of its loop over the groups
Running == {id \in DOMAIN formObserver.batches :
               formObserver.batches[id].stage = "running"}

\* C37: at most one execution of processQuestionsBatch is in progress at any
\* time, those started by the retry timer included, and isProcessing is
\* false whenever no processFormChanges is executing.
C37_OneBatchInProgress ==
    /\ Cardinality(Running) <= 1
    /\ formObserver.isProcessing
          => \E id \in Running : formObserver.batches[id].viaPoll

\* C38: a batch that is filtered after a question was answered goes on
\* without that question, no question joins a batch after its filter, and
\* an oracle call or a write-back happens only for the current group of a
\* batch in progress, the oracle being asked only when that group has a
\* question without an answer: a question answered once is neither resolved
\* nor written back again for a batch drained later.
C38_AnsweredOnce ==
    [][/\ \A id \in 1..MaxBatches :
             id \in DOMAIN formObserver.batches =>
               /\ (/\ formObserver.batches[id].stage = "returned"
                   /\ formObserver'.batches[id] # formObserver.batches[id])
                    => formObserver'.batches[id].questions
                          \cap formObserver.processedQuestions = {}
               /\ formObserver.batches[id].stage \notin {"buffered", "returned"}
                    => formObserver'.batches[id].questions
                          \subseteq formObserver.batches[id].questions
       /\ (\/ formObserver'.answered # formObserver.answered
           \/ Len(formObserver'.oracle) > Len(formObserver.oracle))
            => \E id \in Running :
                  \E group \in {{q \in formObserver.batches[id].questions :
                                    TypeOf(q) =
                                      Head(formObserver.batches[id].remaining)}} :
                     /\ formObserver'.answered
                           = formObserver.answered \cup group
                     /\ Len(formObserver'.oracle) > Len(formObserver.oracle)
                           => group \ formObserver.processedQuestions # {}]_vars

\* C38 witness: the second batch brought a field that had been answered for
\* the first and went on with its other field only
C38_Witness ==
    /\ Len(formObserver.batches) >= 2
    /\ formObserver.batches[1].stage = "processed"
    /\ <<1, "essay">> \in formObserver.batches[1].questions
    /\ formObserver.batches[2].stage = "processed"
    /\ formObserver.batches[2].questions = {<<0, "standard">>}
    /\ <<1, "essay">> \in formObserver.answered

\* C21: when a drained batch reaches processFormChanges while isProcessing
\* is set, that step extracts no field, takes no permit, answers nothing and
\* fills nothing, and the batch is then never touched again.
C21_InFlightSkip ==
    [][\A id \in 1..MaxBatches :
          id \in DOMAIN formObserver.batches =>
            /\ (/\ formObserver.batches[id].stage = "returned"
                /\ formObserver.isProcessing
                /\ formObserver'.batches[id] # formObserver.batches[id])
               => /\ formObserver'.batches[id].stage = "skipped"
                  /\ formObserver'.batches[id].questions = {}
                  /\ formObserver'.calls = formObserver.calls
                  /\ formObserver'.oracle = formObserver.oracle
                  /\ formObserver'.answered = formObserver.answered
                  /\ formObserver'.processedQuestions
                        = formObserver.processedQuestions
                  /\ formObserver'.isProcessing
            /\ formObserver.batches[id].stage = "skipped"
               => formObserver'.batches[id] = formObserver.batches[id]]_vars

\* C21 witness: the second batch was skipped while the first was being
\* processed; the first is done and the second still has no answer
C21_Witness ==
    /\ Len(formObserver.batches) >= 2
    /\ formObserver.batches[1].stage = "processed"
    /\ formObserver.batches[2].stage = "skipped"
    /\ <<2, "experience">> \notin formObserver.answered
    /\ <<1, "experience">> \in formObserver.answered

\* C22: the step that handles the 'standard' group of a batch calls no
\* oracle, and with resume data it fills the group's fields.
C22_StandardByTemplate ==
    [][\A id \in 1..MaxBatches :
          (/\ id \in DOMAIN formObserver.batches
           /\ formObserver.batches[id].stage = "running"
           /\ Head(formObserver.batches[id].remaining) = "standard"
           /\ formObserver'.batches[id] # formObserver.batches[id])
          => /\ formObserver'.oracle = formObserver.oracle
             /\ resume # NoResume =>
                   {q \in formObserver.batches[id].questions :
                       TypeOf(q) = "standard"}
                      \subseteq formObserver'.answered]_vars

\* C22 witness: a standard field is filled and no oracle call was made,
\* while an essay field of the same batch still waits
C22_Witness ==
    /\ <<0, "standard">> \in formObserver.answered
    /\ formObserver.oracle = <<>>
    /\ \E id \in DOMAIN formObserver.batches :
          /\ formObserver.batches[id].stage = "running"
          /\ formObserver.batches[id].remaining = <<"essay">>

-----------------------------------------------------------------------------
(* Application handlers: batch_job_application, fast_form_fill,
   optimized_job_application *)

\* Every element of a snapshot is taken to be interactable.
FormTags == {"input", "textarea", "select"}

Or(a, b) == IF a # <<>> THEN a ELSE b       \* a || b on strings

\* body(1) \o ... \o body(n)
ForEach(n, body(_)) ==
    LET acc[i \in 0..n] == IF i = 0 THEN <<>> ELSE acc[i - 1] \o body(i)
    IN  acc[n]

First(S) == CHOOSE k \in S : \A j \in S : k <= j

Call(op, target, value) == [op |-> op, target |-> target, value |-> value]

\* [name, id, placeholder, textContent].filter(Boolean).map(toLowerCase)
FieldIdentifiers(element) ==
    {toLowerCase(text) :
        text \in {element.name, element.id, element.placeholder,
                  element.textContent} \ {<<>>}}

\* The value of the first mapping whose key some identifier includes,
\* <<>> for null
detectFieldValue(element, fieldMappings) ==
    LET matching == {k \in DOMAIN fieldMappings :
                        \E identifier \in FieldIdentifiers(element) :
                            includes(identifier, fieldMappings[k][1])}
    IN  IF matching = {} THEN <<>> ELSE fieldMappings[First(matching)][2]

\* fieldMappings of rapidFormFill, in insertion order
BatchFieldMappings(autoFillData) ==
    << <<<<"first", "Name">>, Get(autoFillData, "first_name")>>,
       <<<<"first", "_", "name">>, Get(autoFillData, "first_name")>>,
       <<<<"f", "name">>, Get(autoFillData, "first_name")>>,
       <<<<"last", "Name">>, Get(autoFillData, "last_name")>>,
       <<<<"last", "_", "name">>, Get(autoFillData, "last_name")>>,
       <<<<"l", "name">>, Get(autoFillData, "last_name")>>,
       <<<<"email">>, Get(autoFillData, "email")>>,
       <<<<"phone">>, Get(autoFillData, "phone")>>,
       <<<<"mobile">>, Get(autoFillData, "phone")>>,
       <<<<"experience">>, Get(autoFillData, "experience_years")>>,
       <<<<"years">>, Get(autoFillData, "experience_years")>>,
       <<<<"title">>, Get(autoFillData, "current_title")>>,
       <<<<"company">>, Get(autoFillData, "current_company")>>,
       <<<<"degree">>, <<"Yes">>>>,
       <<<<"bachelor">>, <<"Yes">>>>,
       <<<<"authorized">>, <<"Yes">>>>,
       <<<<"sponsorship">>, <<"No">>>>,
       <<<<"visa">>, <<"No">>>>,
       <<<<"relocate">>,
         Or(Get(autoFillData, "willing_to_relocate"), <<"Yes">>)>>,
       <<<<"remote">>, Or(Get(autoFillData, "remote_work"), <<"Yes">>)>>,
       <<<<"commute">>, <<"Yes">>>>,
       <<<<"onsite">>, <<"Yes">>>> >>

\* the mapping literal of fillFieldFast
FastFieldMappings(autoFillData) ==
    << <<<<"first", "Name">>, Get(autoFillData, "first_name")>>,
       <<<<"last", "Name">>, Get(autoFillData, "last_name")>>,
       <<<<"email">>, Get(autoFillData, "email")>>,
       <<<<"phone">>, Get(autoFillData, "phone")>>,
       <<<<"experience">>, Get(autoFillData, "experience_years")>>,
       <<<<"degree">>, <<"Yes">>>>,
       <<<<"authorized">>, <<"Yes">>>>,
       <<<<"sponsorship">>, <<"No">>>> >>

\* Phase 1: every form field with a detected value gets one input call
rapidFormFill(map, autoFillData) ==
    LET fill(i) ==
            LET fieldValue ==
                    detectFieldValue(map[i], BatchFieldMappings(autoFillData))
            IN  IF map[i].tagName \in FormTags /\ fieldValue # <<>>
                THEN <<Call("inputTextElementNode", i, fieldValue)>>
                ELSE <<>>
    IN  ForEach(Len(map), fill)

\* Buttons of the snapshot whose lowercased text includes one of the texts
ButtonsWith(map, texts) ==
    {i \in DOMAIN map :
        /\ map[i].tagName = "button"
        /\ \E text \in texts : includes(toLowerCase(map[i].textContent), text)}

\* Clicks on the buttons in snapshot order: the loop leaves after the first
\* click that does not throw
ClickUntilDone(map, buttons, fault) ==
    LET click(i) ==
            IF i \in buttons /\ (fault = "call" \/ i = First(buttons))
            THEN <<Call("clickElementNode", i, <<>>)>> ELSE <<>>
    IN  ForEach(Len(map), click)

\* Phase 2
handleApplicationFlow(map, fault) ==
    ClickUntilDone(map,
        ButtonsWith(map, {<<"next">>, <<"continue">>, <<"proceed">>,
                          <<"submit">>}), fault)

\* templateAnswers, in insertion order
TemplateAnswers(autoFillData) ==
    << <<<<"why", " ", "interested">>,
         <<"excited about this opportunity">>
            \o Get(autoFillData, "experience_years")>>,
       <<<<"why", " ", "qualify">>,
         <<"my background">> \o Get(autoFillData, "technical_skills")
            \o Get(autoFillData, "experience_years")>>,
       <<<<"salary">>,
         Or(Get(autoFillData, "salary_expectation"), <<"Competitive">>)>>,
       <<<<"start", " ", "date">>,
         Or(Get(autoFillData, "start_date"), <<"Immediate">>)>>,
       <<<<"notice", " ", "period">>, <<"2 weeks">>>>,
       <<<<"availability">>, <<"Immediately available">>>> >>

\* Phase 3: a textarea is answered from the first template whose question
\* its placeholder or text includes; a throwing call moves on to the next
answerQuestionsWithTemplates(map, autoFillData, fault) ==
    LET answers == TemplateAnswers(autoFillData)
        asked(i) ==
            {k \in DOMAIN answers :
                \/ includes(toLowerCase(map[i].placeholder), answers[k][1])
                \/ includes(toLowerCase(map[i].textContent), answers[k][1])}
        answer(i) ==
            LET one(k) ==
                    IF k \in asked(i) /\ (fault = "call" \/ k = First(asked(i)))
                    THEN <<Call("inputTextElementNode", i, answers[k][2])>>
                    ELSE <<>>
            IN  IF map[i].tagName = "textarea"
                THEN ForEach(Len(answers), one) ELSE <<>>
    IN  ForEach(Len(map), answer)

\* Phase 4
attemptSubmission(map, fault) ==
    ClickUntilDone(map,
        ButtonsWith(map, {<<"submit">>, <<"apply">>,
                          <<"send", " ", "application">>}), fault)

Failure(op) == Returned(op, FALSE, NoId, 0)

\* Variant of the batch handler: no check of the profile data.
batchJobApplicationUnchecked(map, after, autoFillData, auto_submit, skip_ai_questions, fault) ==
    LET filled == rapidFormFill(map, autoFillData)
        flow == handleApplicationFlow(map, fault)
        answered == IF skip_ai_questions
                    THEN answerQuestionsWithTemplates(after, autoFillData,
                                                      fault)
                    ELSE <<>>
        submitted == IF auto_submit THEN attemptSubmission(after, fault)
                     ELSE <<>>
        all == filled \o flow \o answered \o submitted
    IN  IF fault = "getState"
        THEN [result |-> Failure("batch_job_application"), calls |-> <<>>]
        ELSE [result |-> Returned("batch_job_application",
                                  fault # "call" \/ all = <<>>, NoId, 0),
              calls |-> all]

\* The batch_job_application handler with the page handle obtained: what it
\* returns and the page-control calls it issues.  map is the snapshot of
\* phases 1 and 2, after the one of phases 3 and 4.
batchJobApplication(map, after, autoFillData, auto_submit, skip_ai_questions, fault) ==
    LET filled == rapidFormFill(map, autoFillData)
        flow == handleApplicationFlow(map, fault)
        answered == IF skip_ai_questions
                    THEN answerQuestionsWithTemplates(after, autoFillData,
                                                      fault)
                    ELSE <<>>
        submitted == IF auto_submit THEN attemptSubmission(after, fault)
                     ELSE <<>>
        all == filled \o flow \o answered \o submitted
    IN  IF autoFillData = NoResume
        THEN [result |-> Failure("batch_job_application"), calls |-> <<>>]
        ELSE IF fault = "getState"
        THEN [result |-> Failure("batch_job_application"), calls |-> <<>>]
        ELSE [result |-> Returned("batch_job_application",
                                  fault # "call" \/ all = <<>>, NoId, 0),
              calls |-> all]

\* The field loop of fast_form_fill from the i-th element on: elapsed is
\* Date.now() - startTime at the top of the iteration, before the calls
\* issued so far.  An iteration that issues a call takes `took`.
RECURSIVE FastFillLoop(_, _, _, _, _, _, _)
FastFillLoop(map, autoFillData, timeout, took, i, elapsed, before) ==
    LET fieldValue ==
            detectFieldValue(map[i], FastFieldMappings(autoFillData))
    IN  IF i > Len(map) THEN before
        ELSE IF map[i].tagName \notin FormTags
        THEN FastFillLoop(map, autoFillData, timeout, took, i + 1, elapsed,
                          before)
        ELSE IF elapsed > timeout THEN before
        ELSE IF fieldValue = <<>>
        THEN FastFillLoop(map, autoFillData, timeout, took, i + 1, elapsed,
                          before)
        ELSE FastFillLoop(map, autoFillData, timeout, took, i + 1,
                          elapsed + took,
                          before \o
                            <<Call("inputTextElementNode", i, fieldValue)>>)

\* fast_form_fill with the page handle obtained and the loop's time limit
\* given in ms; setup is the time spent before the loop
fastFormFillWithin(map, autoFillData, timeout, setup, took, fault) ==
    LET all == FastFillLoop(map, autoFillData, timeout, took, 1, setup, <<>>)
        fieldsProcessed == IF fault = "call" THEN 0 ELSE Len(all)
        errors == IF fault = "call" THEN Len(all) ELSE 0
    IN  IF autoFillData = NoResume
        THEN [result |-> Failure("fast_form_fill"), calls |-> <<>>]
        ELSE IF fault = "getState"
        THEN [result |-> Failure("fast_form_fill"), calls |-> <<>>]
        ELSE [result |-> Returned("fast_form_fill",
                                  2 * errors < fieldsProcessed, NoId, 0),
              calls |-> all]

\* Variant of the fast filler: a time limit that no iteration can pass.
fastFormFillUnbounded(map, autoFillData, timeout_seconds, setup, took, fault) ==
    fastFormFillWithin(map, autoFillData, setup + took * Len(map), setup,
                       took, fault)

\* The fast_form_fill handler with the page handle obtained:
\* timeout = (input.timeout_seconds || 30) * 1000
fastFormFill(map, autoFillData, timeout_seconds, setup, took, fault) ==
    fastFormFillWithin(map, autoFillData,
                       (IF timeout_seconds = 0 THEN 30 ELSE timeout_seconds)
                          * 1000,
                       setup, took, fault)

\* jobApplicationFieldPatterns, flattened in Object.entries order: the key
\* and its patterns, a pattern 'a.?b' being <<a, b>> and a plain one <<a, <<>>>>
FieldPatterns ==
    << <<"firstName", << <<<<"first">>, <<"name">>>>, <<<<"f", "name">>, <<>>>>,
                         <<<<"given">>, <<"name">>>> >> >>,
       <<"lastName", << <<<<"last">>, <<"name">>>>, <<<<"l", "name">>, <<>>>>,
                        <<<<"surname">>, <<>>>>,
                        <<<<"family">>, <<"name">>>> >> >>,
       <<"email", << <<<<"email">>, <<>>>>, <<<<"e">>, <<"mail">>>> >> >>,
       <<"phone", << <<<<"phone">>, <<>>>>, <<<<"telephone">>, <<>>>>,
                     <<<<"mobile">>, <<>>>>, <<<<"cell">>, <<>>>> >> >>,
       <<"address", << <<<<"address">>, <<>>>>, <<<<"street">>, <<>>>>,
                       <<<<"location">>, <<>>>> >> >>,
       <<"city", << <<<<"city">>, <<>>>>, <<<<"town">>, <<>>>> >> >>,
       <<"state", << <<<<"state">>, <<>>>>, <<<<"province">>, <<>>>>,
                     <<<<"region">>, <<>>>> >> >>,
       <<"zipCode", << <<<<"zip">>, <<>>>>, <<<<"postal">>, <<>>>>,
                       <<<<"postcode">>, <<>>>> >> >>,
       <<"country", << <<<<"country">>, <<>>>>, <<<<"nation">>, <<>>>> >> >>,
       <<"currentTitle", << <<<<"current">>, <<"title">>>>,
                            <<<<"job">>, <<"title">>>>,
                            <<<<"position">>, <<>>>> >> >>,
       <<"currentCompany", << <<<<"current">>, <<"company">>>>,
                              <<<<"employer">>, <<>>>>,
                              <<<<"organization">>, <<>>>> >> >>,
       <<"experience", << <<<<"experience">>, <<>>>>,
                          <<<<"years">>, <<"experience">>>>,
                          <<<<"work">>, <<"experience">>>> >> >>,
       <<"salary", << <<<<"salary">>, <<>>>>, <<<<"compensation">>, <<>>>>,
                      <<<<"pay">>, <<>>>>, <<<<"wage">>, <<>>>> >> >>,
       <<"availability", << <<<<"availability">>, <<>>>>,
                            <<<<"start">>, <<"date">>>>,
                            <<<<"notice">>, <<>>>> >> >>,
       <<"linkedIn", << <<<<"linkedin">>, <<>>>>, <<<<"profile">>, <<>>>> >> >>,
       <<"portfolio", << <<<<"portfolio">>, <<>>>>, <<<<"website">>, <<>>>>,
                         <<<<"github">>, <<>>>> >> >>,
       <<"coverLetter", << <<<<"cover">>, <<"letter">>>>,
                           <<<<"motivation">>, <<>>>>,
                           <<<<"why">>, <<"interested">>>> >> >>,
       <<"resume", << <<<<"resume">>, <<>>>>, <<<<"cv">>, <<>>>>,
                      <<<<"curriculum">>, <<>>>> >> >>,
       <<"references", << <<<<"reference">>, <<>>>>,
                          <<<<"referral">>, <<>>>> >> >>,
       <<"questions", << <<<<"why">>, <<"apply">>>>,
                         <<<<"why">>, <<"interested">>>>,
                         <<<<"tell">>, <<"us">>>>,
                         <<<<"describe">>, <<>>>> >> >> >>

\* new RegExp(pattern, 'i').test(identifier), '.?' being at most one token
PatternTest(identifier, pattern) ==
    LET head == pattern[1]
        tail == pattern[2]
        at(part, i) == /\ i + Len(part) - 1 <= Len(identifier)
                       /\ SubSeq(identifier, i, i + Len(part) - 1) = part
    IN  \E i \in DOMAIN identifier :
            /\ at(head, i)
            /\ \/ tail = <<>>
               \/ at(tail, i + Len(head))
               \/ at(tail, i + Len(head) + 1)

\* The key of the first pattern row from the k-th on that some identifier
\* matches, "" for null
RECURSIVE MatchFrom(_, _)
MatchFrom(fieldIdentifiers, k) ==
    IF k > Len(FieldPatterns) THEN ""
    ELSE IF \E j \in DOMAIN FieldPatterns[k][2],
               identifier \in fieldIdentifiers :
                PatternTest(identifier, FieldPatterns[k][2][j])
    THEN FieldPatterns[k][1]
    ELSE MatchFrom(fieldIdentifiers, k + 1)

matchFieldToResumeDataFromElement(elementNode) ==
    MatchFrom(FieldIdentifiers(elementNode), 1)

\* The field loop of optimized_job_application from the i-th element on;
\* before is what the iterations so far have done
RECURSIVE OptimizedLoop(_, _, _, _, _, _, _)
OptimizedLoop(map, autoFillData, use_cache, optionFound, fault, i, before) ==
    LET fieldKey == matchFieldToResumeDataFromElement(map[i])
        value == Get(autoFillData, fieldKey)
        field == IF fieldKey = "" \/ value = <<>> THEN <<>>
                 ELSE IF map[i].tagName = "select"
                 THEN (IF optionFound
                       THEN <<Call("selectDropdownOption", i, value)>>
                       ELSE <<>>)
                 ELSE <<Call("inputTextElementNode", i, value)>>
        looked == getCachedResponse(
                      before.cache,
                      Or(map[i].placeholder, map[i].textContent),
                      [companyName |-> Get(autoFillData, "current_company")],
                      now)
        after ==
            IF map[i].tagName \notin FormTags THEN before
            ELSE IF map[i].tagName = "textarea" /\ use_cache
            THEN IF looked.response # <<>>
                 THEN [calls |-> before.calls \o
                          <<Call("inputTextElementNode", i, looked.response)>>,
                       cache |-> looked.cache,
                       threw |-> fault = "call"]
                 ELSE [before EXCEPT !.calls = @ \o field,
                                     !.cache = looked.cache]
            ELSE [before EXCEPT !.calls = @ \o field]
    IN  IF i > Len(map) \/ before.threw THEN before
        ELSE OptimizedLoop(map, autoFillData, use_cache, optionFound, fault,
                           i + 1, after)

\* The optimized_job_application handler with the page handle obtained: the
\* result, the calls, the observers it installs and the cache it leaves.
\* optionFound says whether a dropdown offers an option for the value.
optimizedJobApplication(map, entries, autoFillData, enable_observer, use_cache, optionFound, fault) ==
    LET done == OptimizedLoop(map, autoFillData, use_cache, optionFound,
                              fault, 1,
                              [calls |-> <<>>, cache |-> entries,
                               threw |-> FALSE])
        installed == IF enable_observer THEN 1 ELSE 0
    IN  IF autoFillData = NoResume
        THEN [result |-> Failure("optimized_job_application"),
              calls |-> <<>>, installed |-> 0, cache |-> entries]
        ELSE IF fault = "getState"
        THEN [result |-> Failure("optimized_job_application"),
              calls |-> <<>>, installed |-> installed, cache |-> entries]
        ELSE [result |-> Returned("optimized_job_application",
                                  ~ done.threw, NoId, 0),
              calls |-> done.calls, installed |-> installed,
              cache |-> done.cache]

\* elementNode.attributes?.value, <<>> for undefined
ValueOf(elementNode) ==
    IF "value" \in DOMAIN elementNode THEN elementNode.value ELSE <<>>

\* The auto_fill_job_application handler with the page handle obtained: what
\* it returns and the page-control calls it issues.  skip_fields is read
\* into a local that the loop never consults.
autoFillJobApplication(map, autoFillData, skip_fields, custom_field_name, custom_field_value, optionFound, fault) ==
    LET fill(i) ==
            LET fieldKey == matchFieldToResumeDataFromElement(map[i])
                valueToFill ==
                    IF fieldKey # "" /\ Get(autoFillData, fieldKey) # <<>>
                    THEN Get(autoFillData, fieldKey)
                    ELSE IF /\ custom_field_name # <<>>
                            /\ custom_field_value # <<>>
                            /\ \/ map[i].name = custom_field_name
                               \/ map[i].id = custom_field_name
                    THEN custom_field_value
                    ELSE <<>>
            IN  IF /\ map[i].tagName \in FormTags
                   /\ valueToFill # <<>>
                   /\ ValueOf(map[i]) = <<>>
                THEN IF map[i].tagName = "select"
                     THEN (IF optionFound
                           THEN <<Call("selectDropdownOption", i,
                                       valueToFill)>>
                           ELSE <<>>)
                     ELSE <<Call("inputTextElementNode", i, valueToFill)>>
                ELSE <<>>
    IN  IF autoFillData = NoResume
        THEN [result |-> Failure("auto_fill_job_application"),
              calls |-> <<>>]
        ELSE IF fault = "getState"
        THEN [result |-> Failure("auto_fill_job_application"),
              calls |-> <<>>]
        ELSE [result |-> Returned("auto_fill_job_application", TRUE, NoId,
                                  0),
              calls |-> ForEach(Len(map), fill)]

-----------------------------------------------------------------------------
(* Application behaviours *)

TextareaWhy ==
    [tagName |-> "textarea", id |-> <<>>, name |-> <<>>,
     placeholder |-> <<"Why", " ", "interested", "?">>, textContent |-> <<>>]
ButtonNext ==
    [tagName |-> "button", id |-> <<>>, name |-> <<>>,
     placeholder |-> <<>>, textContent |-> <<"Next">>]
FieldDegree ==
    [tagName |-> "input", id |-> <<>>, name |-> <<"degree">>,
     placeholder |-> <<>>, textContent |-> <<>>]
ButtonSubmit ==
    [tagName |-> "button", id |-> <<>>, name |-> <<>>,
     placeholder |-> <<>>, textContent |-> <<"Submit", " ", "application">>]

ApplyPages ==
    {<<FieldEmail, FieldDegree, TextareaWhy, SelectCountry, ButtonNext>>,
     <<TextareaWhy, ButtonApply>>}

Profile ==
    [email |-> <<"me@mail">>, phone |-> <<"555">>,
     first_name |-> <<"Ann">>, last_name |-> <<"Lee">>,
     country |-> <<"US">>, current_company |-> <<"Acme">>,
     experience_years |-> <<"5 years">>]

\* A cached answer to the "why interested" question, written age ago
CachedWhy(age) ==
    (generateQuestionHash(<<"why", " ", "interested">>) :>
        NewEntry(<<"why", " ", "interested">>,
                 <<"I like", "[Company Name]">>, 0 - age))

InitApply ==
    /\ input = <<>> /\ output = <<>> /\ phase = "system"
    /\ now = 0
    /\ pageOk = TRUE
    /\ selectorMap \in ApplyPages
    /\ recording = NoRecording
    /\ listeners = 0
    /\ recorder = NewRecorder
    /\ observers = 0
    /\ formObserverChanges = <<>>
    /\ formObserver = <<>>
    /\ cache \in {CachedWhy(0), CachedWhy(CACHE_EXPIRY + 1)}
    /\ jobhuntllm_workflows = <<>>
    /\ recorded_workflows = <<Recorded(0, <<"input">>)>>
    /\ result = NoResult
    /\ resume \in {NoResume, Profile}
    /\ run = NoRun
    /\ calls = <<>>
    /\ hits = 0
    /\ tally = (0 :> [runs |-> 0, full |-> 0])

\* the page is re-rendered between two awaits
PageRenderOf(pages) ==
    /\ \E page \in pages \ {selectorMap} : selectorMap' = page
    /\ UNCHANGED <<fnVars, applyVars, now, pageOk, recVars,
                   recorded_workflows, result, replayVars>>

PageRender == PageRenderOf(ApplyPages)

\* What the handlers leave alone
handlerFrame ==
    <<output, phase, now, pageOk, recVars, recorded_workflows, resume, run,
      hits, tally>>

\* One call of batch_job_application on a site that shows the given pages
batchJobApplicationCall(pages, auto_submit, skip_ai_questions, fault) ==
    /\ run.pc # "running"
    /\ \E after \in IF pageOk /\ resume # NoResume /\ fault # "getState"
                        /\ handleApplicationFlow(selectorMap, fault) # <<>>
                     THEN pages ELSE {selectorMap} :
          IF pageOk
          THEN \E out \in {batchJobApplication(selectorMap, after, resume,
                               auto_submit, skip_ai_questions, fault)} :
                  /\ result' = out.result
                  /\ calls' = out.calls
                  /\ selectorMap' = after
          ELSE /\ result' = Rejected("batch_job_application")
               /\ calls' = <<>>
               /\ selectorMap' = selectorMap
    /\ UNCHANGED <<handlerFrame, applyVars>>

BatchJobApplicationAction ==
    /\ \E auto_submit \in BOOLEAN, skip_ai_questions \in BOOLEAN,
          fault \in Faults :
          batchJobApplicationCall(ApplyPages, auto_submit, skip_ai_questions,
                                  fault)
    /\ UNCHANGED input

\* Values of input.timeout_seconds, and durations in ms of the steps before
\* the loop and of one field's fill
TimeoutSeconds == {0, 1}
SetupTimes == {0, 1500}
FillTimes == {0, 1100, 31000}

\* One call of fast_form_fill
fastFormFillCall(timeout_seconds, setup, took, fault) ==
    /\ run.pc # "running"
    /\ IF pageOk
       THEN \E out \in {fastFormFill(selectorMap, resume, timeout_seconds,
                                     setup, took, fault)} :
               result' = out.result /\ calls' = out.calls
       ELSE result' = Rejected("fast_form_fill") /\ calls' = <<>>
    /\ UNCHANGED <<handlerFrame, applyVars, selectorMap>>

FastFormFillAction ==
    /\ \E timeout_seconds \in TimeoutSeconds, setup \in SetupTimes,
          took \in FillTimes, fault \in Faults :
          fastFormFillCall(timeout_seconds, setup, took, fault)
    /\ UNCHANGED input

OptimizedJobApplicationAction ==
    /\ run.pc # "running"
    /\ \E enable_observer \in BOOLEAN, use_cache \in BOOLEAN,
          optionFound \in BOOLEAN, fault \in Faults :
          IF pageOk
          THEN \E out \in {optimizedJobApplication(selectorMap, cache,
                               resume, enable_observer, use_cache,
                               optionFound, fault)} :
                  /\ observers + out.installed <= MaxObservers
                  /\ \A h \in DOMAIN out.cache :
                        out.cache[h].useCount <= MaxUses
                  /\ result' = out.result
                  /\ calls' = out.calls
                  /\ observers' = observers + out.installed
                  /\ cache' = out.cache
          ELSE /\ result' = Rejected("optimized_job_application")
               /\ calls' = <<>>
               /\ UNCHANGED <<observers, cache>>
    /\ UNCHANGED <<handlerFrame, input, selectorMap, jobhuntllm_workflows,
                   formObserverChanges, formObserver>>

\* executeWorkflow is called in these behaviours only while the tab is away
ExecuteUnreachable == ~ pageOk /\ Execute

NextApply ==
    \/ PageRender
    \/ PageToggleReplay
    \/ ExecuteUnreachable
    \/ BatchJobApplicationAction
    \/ FastFormFillAction
    \/ OptimizedJobApplicationAction

SpecApply == InitApply /\ [][NextApply]_vars

ApplyHandlerStep ==
    \/ BatchJobApplicationAction
    \/ FastFormFillAction
    \/ OptimizedJobApplicationAction

ExplicitFailure(r) == r.success = FALSE /\ r.thrown = FALSE

-----------------------------------------------------------------------------
(* Form handlers with their inputs on record *)

\* an email field that already holds a value
FieldEmailFilled == FieldEmail @@ ("value" :> <<"old@mail">>)

FormPages ==
    ApplyPages \cup {<<FieldEmail, ButtonSubmit>>,
                     <<FieldEmailFilled, FieldDegree>>}

InitForm ==
    /\ input = <<>> /\ output = <<>> /\ phase = "system"
    /\ now = 0
    /\ pageOk = TRUE
    /\ selectorMap \in FormPages
    /\ recording = NoRecording
    /\ listeners = 0
    /\ recorder = NewRecorder
    /\ observers = 0
    /\ formObserverChanges = <<>>
    /\ formObserver = <<>>
    /\ cache = <<>>
    /\ jobhuntllm_workflows = <<>>
    /\ recorded_workflows = <<>>
    /\ result = NoResult
    /\ resume \in {NoResume, Profile}
    /\ run = NoRun
    /\ calls = <<>>
    /\ hits = 0
    /\ tally = <<>>

FormPageRender == PageRenderOf(FormPages)

\* batch_job_application is called; input keeps what it was called with
BatchJobApplicationRun ==
    \E auto_submit \in BOOLEAN, skip_ai_questions \in BOOLEAN,
       fault \in Faults :
       /\ input' = [op |-> "batch_job_application",
                    auto_submit |-> auto_submit,
                    skip_ai_questions |-> skip_ai_questions]
       /\ batchJobApplicationCall(FormPages, auto_submit, skip_ai_questions,
                                  fault)

\* fast_form_fill is called; input keeps what it was called with and the
\* durations of the call
FastFormFillRun ==
    \E timeout_seconds \in TimeoutSeconds, setup \in SetupTimes,
       took \in FillTimes, fault \in Faults :
       /\ input' = [op |-> "fast_form_fill",
                    timeout_seconds |-> timeout_seconds,
                    setup |-> setup, took |-> took]
       /\ fastFormFillCall(timeout_seconds, setup, took, fault)

\* auto_fill_job_application is called; input keeps what it was called with
AutoFillJobApplicationRun ==
    \E skip_fields \in SUBSET {<<"email">>},
       custom_field_name \in {<<>>, <<"degree">>},
       custom_field_value \in {<<>>, <<"BSc">>},
       optionFound \in BOOLEAN, fault \in Faults :
       /\ input' = [op |-> "auto_fill_job_application",
                    skip_fields |-> skip_fields,
                    custom_field_name |-> custom_field_name,
                    custom_field_value |-> custom_field_value]
       /\ run.pc # "running"
       /\ IF pageOk
          THEN \E out \in {autoFillJobApplication(selectorMap, resume,
                              skip_fields, custom_field_name,
                              custom_field_value, optionFound, fault)} :
                  result' = out.result /\ calls' = out.calls
          ELSE /\ result' = Rejected("auto_fill_job_application")
               /\ calls' = <<>>
       /\ UNCHANGED <<handlerFrame, applyVars, selectorMap>>

NextForm ==
    \/ FormPageRender
    \/ PageToggleReplay
    \/ BatchJobApplicationRun
    \/ FastFormFillRun
    \/ AutoFillJobApplicationRun

SpecForm == InitForm /\ [][NextForm]_vars

\* C23: a batch_job_application call with auto_submit = false clicks, in no
\* phase, a button whose text contains 'submit', 'apply' or 'send
\* application'.
C23_NoSubmitWithoutAutoSubmit ==
    [][(BatchJobApplicationRun /\ ~ input'.auto_submit)
          => \A k \in DOMAIN calls' :
                calls'[k].op = "clickElementNode"
                => calls'[k].target \notin
                      ButtonsWith(selectorMap,
                                  {<<"submit">>, <<"apply">>,
                                   <<"send", " ", "application">>})]_vars

\* C24: auto_fill_job_application writes no element whose name or id is in
\* skip_fields and none that already has a value, and every value it writes
\* is the matched profile value or the supplied custom field value.
C24_SkipAndKeep ==
    [][AutoFillJobApplicationRun
          => \A k \in DOMAIN calls' :
                \E elementNode \in {selectorMap[calls'[k].target]} :
                   /\ elementNode.name \notin input'.skip_fields
                   /\ elementNode.id \notin input'.skip_fields
                   /\ ValueOf(elementNode) = <<>>
                   /\ calls'[k].value \in
                         {Get(resume,
                              matchFieldToResumeDataFromElement(elementNode)),
                          input'.custom_field_value}]_vars

\* What a fast_form_fill call that obtained its page handle does with a time
\* limit of timeout ms: it returns a result, every field it fills is filled
\* in an iteration that began with the elapsed time within the limit, and no
\* field is filled twice
FastFillWithin(timeout) ==
    /\ ~ result'.thrown
    /\ \A k \in DOMAIN calls' :
          /\ calls'[k].op = "inputTextElementNode"
          /\ input'.setup + (k - 1) * input'.took <= timeout
          /\ \A l \in DOMAIN calls' :
                k < l => calls'[k].target < calls'[l].target

-----------------------------------------------------------------------------
(* Workflow statistics: WorkflowExecutor and WorkflowSaver *)

\* WorkflowSaver.saveWorkflow: replace the workflow of the same id, or append
saveWorkflow(workflows, workflow) ==
    LET existing == {k \in DOMAIN workflows : workflows[k].id = workflow.id}
    IN  IF existing # {}
        THEN [workflows EXCEPT ![First(existing)] = workflow]
        ELSE Append(workflows, workflow)

\* Variant of the saver's update: adds the outcome without halving.
saverUpdateWorkflowStatsSum(workflows, workflowId, success) ==
    LET k == FindWorkflow(workflows, workflowId)
        w == workflows[k]
        rate == Frac(w.successRate[1]
                        + (IF success THEN 1 ELSE 0) * w.successRate[2],
                     w.successRate[2])
    IN  IF k = 0 THEN workflows
        ELSE saveWorkflow(workflows,
                 [w EXCEPT !.usageCount = @ + 1, !.successRate = rate])

\* WorkflowSaver.updateWorkflowStats: the collection it writes back
saverUpdateWorkflowStats(workflows, workflowId, success) ==
    LET k == FindWorkflow(workflows, workflowId)
        w == workflows[k]
        rate == Frac(w.successRate[1]
                        + (IF success THEN 1 ELSE 0) * w.successRate[2],
                     2 * w.successRate[2])
    IN  IF k = 0 THEN workflows
        ELSE saveWorkflow(workflows,
                 [w EXCEPT !.usageCount = @ + 1, !.successRate = rate])

\* determineIfAIRequired, which agrees with the isAIRequired flags of the
\* prebuilt steps
determineIfAIRequired(actionName) ==
    actionName \in {"generate_cover_letter", "handle_job_questions",
                    "detect_job_application_form"}

\* whether a step of that action carries a fallbackAction
hasFallbackAction(actionName) ==
    actionName \in {"batch_job_application", "auto_fill_job_application",
                    "generate_cover_letter", "handle_job_questions",
                    "detect_job_application_form"}

\* WorkflowSaver.executeWorkflow on a stored workflow: threw is the set of
\* step positions whose action rejects.  A step that needs AI, has no
\* fallback and runs without AI is skipped without an error.
saverExecuteWorkflow(workflows, workflowId, useAI, threw) ==
    LET k == FindWorkflow(workflows, workflowId)
        steps == workflows[k].steps
        skipped == {j \in DOMAIN steps :
                       /\ determineIfAIRequired(steps[j])
                       /\ ~ useAI
                       /\ ~ hasFallbackAction(steps[j])}
        errors == (DOMAIN steps \ skipped) \cap threw
        executedSteps == Cardinality(DOMAIN steps \ (skipped \cup errors))
    IN  IF k = 0
        THEN [result |-> Rejected("saverExecuteWorkflow"),
              workflows |-> workflows]
        ELSE [result |-> Returned("saverExecuteWorkflow", errors = {},
                                  NoId, executedSteps),
              workflows |-> saverUpdateWorkflowStats(workflows, workflowId,
                                executedSteps = Len(steps))]

\* The statistics of the workflows shipped with the extension
PREBUILT_WORKFLOWS ==
    << [id |-> "linkedin_easy_apply_fast", platform |-> "linkedin",
        applicationType |-> "easy_apply",
        steps |-> <<"batch_job_application", "track_application">>,
        successRate |-> Frac(95, 100), usageCount |-> 0],
       [id |-> "indeed_quick_apply_fast", platform |-> "indeed",
        applicationType |-> "quick_apply",
        steps |-> <<"batch_job_application", "track_application">>,
        successRate |-> Frac(9, 10), usageCount |-> 0],
       [id |-> "workday_ats_smart", platform |-> "workday",
        applicationType |-> "ats_system",
        steps |-> <<"fast_form_fill", "auto_fill_job_application",
                    "generate_cover_letter", "track_application">>,
        successRate |-> Frac(85, 100), usageCount |-> 0],
       [id |-> "generic_fast_apply", platform |-> "other",
        applicationType |-> "company_portal",
        steps |-> <<"fast_form_fill", "skip_duplicate_application",
                    "track_application">>,
        successRate |-> Frac(8, 10), usageCount |-> 0] >>

\* The statistics of a workflow as saveWorkflowFromHistory stores it
FromHistory ==
    [id |-> "linkedin_easy_apply_1", platform |-> "linkedin",
     applicationType |-> "easy_apply", steps |-> <<"click_element">>,
     successRate |-> <<1, 1>>, usageCount |-> 1]

InitStats ==
    /\ input = <<>> /\ output = <<>> /\ phase = "system"
    /\ now = 0
    /\ pageOk = TRUE
    /\ selectorMap = <<>>
    /\ recording = NoRecording
    /\ listeners = 0
    /\ recorder = NewRecorder
    /\ observers = 0
    /\ formObserverChanges = <<>>
    /\ formObserver = <<>>
    /\ cache = <<>>
    /\ recorded_workflows = <<SecondWorkflow>>
    /\ jobhuntllm_workflows \in
          {<<w>> : w \in Range(PREBUILT_WORKFLOWS) \cup {FromHistory}}
    /\ result = NoResult
    /\ resume = NoResume
    /\ run = NoRun
    /\ calls = <<>>
    /\ hits = 0
    /\ tally = <<>>

statsFrame ==
    <<fnVars, now, pageVars, recorder, result, replayVars, observers,
      formObserverChanges, formObserver, cache>>

\* WorkflowExecutor.updateWorkflowStats with either outcome
ExecutorStats ==
    /\ \E k \in DOMAIN recorded_workflows, success \in BOOLEAN :
          /\ recorded_workflows[k].usageCount < MaxUsage
          /\ recorded_workflows' =
                updateWorkflowStats(recorded_workflows,
                                    recorded_workflows[k].id, success)
    /\ UNCHANGED <<statsFrame, jobhuntllm_workflows>>

\* WorkflowSaver.updateWorkflowStats with either outcome
SaverStats ==
    /\ \E k \in DOMAIN jobhuntllm_workflows, success \in BOOLEAN :
          /\ jobhuntllm_workflows[k].usageCount < MaxUsage
          /\ jobhuntllm_workflows' =
                saverUpdateWorkflowStats(jobhuntllm_workflows,
                                         jobhuntllm_workflows[k].id, success)
    /\ UNCHANGED <<statsFrame, recorded_workflows>>

\* WorkflowSaver.executeWorkflow on the k-th stored workflow; input keeps
\* what it was called with
SaverExecuteWorkflow ==
    /\ \E k \in DOMAIN jobhuntllm_workflows, useAI \in BOOLEAN,
          threw \in {{}, {1}} :
          /\ jobhuntllm_workflows[k].usageCount < MaxUsage
          /\ input' = [op |-> "saverExecuteWorkflow", index |-> k]
          /\ \E out \in {saverExecuteWorkflow(jobhuntllm_workflows,
                              jobhuntllm_workflows[k].id, useAI, threw)} :
                /\ result' = out.result
                /\ jobhuntllm_workflows' = out.workflows
    /\ UNCHANGED <<output, phase, now, pageVars, recorder, replayVars,
                   observers, formObserverChanges, formObserver, cache,
                   recorded_workflows>>

NextStats ==
    \/ ExecutorStats
    \/ SaverStats
    \/ SaverExecuteWorkflow

SpecStats == InitStats /\ [][NextStats]_vars

\* C31: a completed WorkflowSaver.executeWorkflow run increments usageCount by
\* 1, sets successRate to (successRate * (usageCount - 1) + outcome) /
\* usageCount with outcome = 1 iff every step was executed, and returns a
\* success flag that agrees with the outcome.
C31_SaverIncrementalAverage ==
    [][SaverExecuteWorkflow
          => \E before \in {jobhuntllm_workflows[input'.index]},
                after \in {jobhuntllm_workflows'[input'.index]} :
                /\ after.usageCount = before.usageCount + 1
                /\ after.successRate =
                      Frac(before.successRate[1] * before.usageCount
                              + (IF result'.executedSteps = Len(before.steps)
                                 THEN before.successRate[2] ELSE 0),
                           before.successRate[2] * after.usageCount)
                /\ result'.success
                      = (result'.executedSteps = Len(before.steps))]_vars

InUnitInterval(rate) == rate[2] > 0 /\ 0 <= rate[1] /\ rate[1] <= rate[2]

\* C7: after any sequence of statistics updates of either kind with any
\* outcomes, every stored successRate lies in [0, 1].
C7_RateInUnitInterval ==
    /\ \A k \in DOMAIN recorded_workflows :
          InUnitInterval(recorded_workflows[k].successRate)
    /\ \A k \in DOMAIN jobhuntllm_workflows :
          InUnitInterval(jobhuntllm_workflows[k].successRate)

\* C7 witness: both kinds of update have run with both outcomes
C7_Witness ==
    /\ recorded_workflows[1].usageCount = 3
    /\ recorded_workflows[1].successRate = <<2, 3>>
    /\ jobhuntllm_workflows[1].usageCount = 3
    /\ jobhuntllm_workflows[1].successRate = <<39, 80>>
-----------------------------------------------------------------------------
(* Workflow library: the collection 'jobhuntllm_workflows' and its writers *)

\* WorkflowSaver.generateWorkflowId at time t
generateWorkflowId(platform, type, t) ==
    platform \o "_" \o type \o "_" \o ToString(t)

\* saveWorkflowFromHistory at time t for a history of one action
saveWorkflowFromHistory(workflows, platform, applicationType, t) ==
    saveWorkflow(workflows,
        [id |-> generateWorkflowId(platform, applicationType, t),
         platform |-> platform,
         applicationType |-> applicationType,
         steps |-> <<"click_element">>,
         successRate |-> <<1, 1>>,
         usageCount |-> 1])

\* Variant of initializePrebuiltWorkflows: every prebuilt workflow is
\* appended
initializePrebuiltWorkflowsAll(existingWorkflows) ==
    existingWorkflows \o PREBUILT_WORKFLOWS

\* initializePrebuiltWorkflows: the collection it leaves in storage
initializePrebuiltWorkflows(existingWorkflows) ==
    LET missing(prebuilt) ==
            \A k \in DOMAIN existingWorkflows :
               existingWorkflows[k].id # prebuilt.id
        newWorkflows == SelectSeq(PREBUILT_WORKFLOWS, missing)
    IN  IF Len(newWorkflows) > 0 THEN existingWorkflows \o newWorkflows
        ELSE existingWorkflows

\* duplicateWorkflow of the settings page at time t: the collection it
\* writes.  workflows is the page's copy of the collection, taken here to be
\* the stored one.
duplicateWorkflow(workflows, workflow, t) ==
    Append(workflows,
        [workflow EXCEPT
            !.id = generateWorkflowId(workflow.platform,
                                      workflow.applicationType, t),
            !.usageCount = 0])

\* deleteWorkflow of the settings page
deleteWorkflow(workflows, workflowId) ==
    LET others(w) == w.id # workflowId
    IN  SelectSeq(workflows, others)

\* the rates a workflow is created with
InitialRates ==
    {<<1, 1>>} \cup {PREBUILT_WORKFLOWS[i].successRate :
                       i \in DOMAIN PREBUILT_WORKFLOWS}

MaxLibrary == 4         \* workflows in 'jobhuntllm_workflows'
MaxLibraryTicks == 1    \* milliseconds that pass in a library behaviour
MaxLibraryUses == 1     \* statistics updates of one workflow

InitLibrary ==
    /\ input = <<>> /\ output = <<>> /\ phase = "system"
    /\ now = 0
    /\ pageOk = TRUE
    /\ selectorMap = RecordingPage
    /\ recording = NoRecording
    /\ listeners = 0
    /\ recorder = NewRecorder
    /\ observers = 0
    /\ formObserverChanges = <<>>
    /\ formObserver = <<>>
    /\ cache = <<>>
    /\ recorded_workflows = <<>>
    /\ jobhuntllm_workflows = <<>>
    /\ result = NoResult
    /\ resume = NoResume
    /\ run = NoRun
    /\ calls = <<>>
    /\ hits = 0
    /\ tally = <<>>

\* The workflows an operation is applied to in these behaviours: the first
\* and the last of the list
Selected(workflows) == {1, Len(workflows)} \cap DOMAIN workflows

libraryFrame ==
    <<output, phase, pageVars, recorder, result, replayVars, observers,
      formObserverChanges, formObserver, cache, recorded_workflows>>

LibraryTick ==
    /\ now < MaxLibraryTicks
    /\ now' = now + 1
    /\ input' = <<>>
    /\ UNCHANGED <<libraryFrame, jobhuntllm_workflows>>

SaveWorkflowFromHistory ==
    /\ \E out \in {saveWorkflowFromHistory(jobhuntllm_workflows, "linkedin",
                                            "easy_apply", now)} :
          /\ Len(out) <= MaxLibrary
          /\ jobhuntllm_workflows' = out
    /\ input' = <<>>
    /\ UNCHANGED <<libraryFrame, now>>

\* WorkflowSaver.updateWorkflowStats with either outcome, on a workflow that
\* still has the rate it was created with (this keeps the rates finite)
LibraryStats ==
    /\ \E k \in Selected(jobhuntllm_workflows), success \in BOOLEAN :
          /\ \E w \in {jobhuntllm_workflows[
                           FindWorkflow(jobhuntllm_workflows,
                                        jobhuntllm_workflows[k].id)]} :
                /\ w.usageCount < MaxLibraryUses
                /\ w.successRate \in InitialRates
          /\ jobhuntllm_workflows' =
                saverUpdateWorkflowStats(jobhuntllm_workflows,
                                         jobhuntllm_workflows[k].id, success)
    /\ input' = <<>>
    /\ UNCHANGED <<libraryFrame, now>>

InitializePrebuiltWorkflows ==
    /\ \E out \in {initializePrebuiltWorkflows(jobhuntllm_workflows)} :
          /\ Len(out) <= MaxLibrary
          /\ jobhuntllm_workflows' = out
    /\ input' = <<>>
    /\ UNCHANGED <<libraryFrame, now>>

\* the operator duplicates a workflow of the list
DuplicateWorkflow ==
    /\ Len(jobhuntllm_workflows) < MaxLibrary
    /\ \E k \in Selected(jobhuntllm_workflows) :
          /\ jobhuntllm_workflows' =
                duplicateWorkflow(jobhuntllm_workflows,
                                  jobhuntllm_workflows[k], now)
          /\ input' = [op |-> "duplicateWorkflow", index |-> k]
    /\ UNCHANGED <<libraryFrame, now>>

\* the operator deletes a workflow of the list
DeleteWorkflow ==
    /\ \E k \in Selected(jobhuntllm_workflows) :
          jobhuntllm_workflows' =
             deleteWorkflow(jobhuntllm_workflows, jobhuntllm_workflows[k].id)
    /\ input' = <<>>
    /\ UNCHANGED <<libraryFrame, now>>

NextLibrary ==
    \/ LibraryTick
    \/ SaveWorkflowFromHistory
    \/ LibraryStats
    \/ InitializePrebuiltWorkflows
    \/ DuplicateWorkflow
    \/ DeleteWorkflow

SpecLibrary == InitLibrary /\ [][NextLibrary]_vars

\* C27: duplicating a workflow appends exactly one workflow, with the same
\* steps, an id different from every id already in the collection,
\* usageCount = 0 and successRate at its initial value; the workflows that
\* were in the collection are unchanged.
C27_Duplicate ==
    [][DuplicateWorkflow
          => /\ Len(jobhuntllm_workflows') = Len(jobhuntllm_workflows) + 1
             /\ SubSeq(jobhuntllm_workflows', 1, Len(jobhuntllm_workflows))
                   = jobhuntllm_workflows
             /\ \E copy \in {jobhuntllm_workflows'[
                                 Len(jobhuntllm_workflows')]} :
                   /\ copy.steps = jobhuntllm_workflows[input'.index].steps
                   /\ \A j \in DOMAIN jobhuntllm_workflows :
                         jobhuntllm_workflows[j].id # copy.id
                   /\ copy.usageCount = 0
                   /\ copy.successRate \in InitialRates]_vars

UniqueIds(workflows) ==
    \A j, k \in DOMAIN workflows :
       workflows[j].id = workflows[k].id => j = k

\* C28: no stored collection holds two workflows with the same id.
C28_UniqueIds ==
    /\ UniqueIds(jobhuntllm_workflows)
    /\ UniqueIds(recorded_workflows)

\* C40: initializePrebuiltWorkflows leaves the stored workflows in place and
\* unchanged, appends exactly the prebuilt workflows whose id was absent,
\* and a second call right after it changes nothing.
C40_InitializeIdempotent ==
    [][InitializePrebuiltWorkflows
          => LET old == jobhuntllm_workflows
                 new == jobhuntllm_workflows'
                 added == SubSeq(new, Len(old) + 1, Len(new))
                 absent(prebuilt) ==
                    \A k \in DOMAIN old : old[k].id # prebuilt.id
             IN  /\ Len(new) >= Len(old)
                 /\ SubSeq(new, 1, Len(old)) = old
                 /\ added = SelectSeq(PREBUILT_WORKFLOWS, absent)
                 /\ initializePrebuiltWorkflows(new) = new]_vars

\* C40 witness: the first prebuilt workflow had been deleted and was
\* appended again behind the ones that were still stored
C40_Witness ==
    /\ Len(jobhuntllm_workflows) = Len(PREBUILT_WORKFLOWS)
    /\ jobhuntllm_workflows[1].id = PREBUILT_WORKFLOWS[2].id
    /\ jobhuntllm_workflows[Len(jobhuntllm_workflows)]
          = PREBUILT_WORKFLOWS[1]

====
